---- MODULE Spec2Model ----
(***************************************************************************)
(* A model of bdk-ffi: the copy-on-write transaction builder of            *)
(* src/bdk-ffi/src/wallet.rs and the descriptor keys of                    *)
(* src/bdk-ffi/src/lib.rs.                                                 *)
(*                                                                         *)
(* Reference-counted objects (Arc<TxBuilder>, Arc<DescriptorSecretKey>,    *)
(* Arc<DescriptorPublicKey>) live in two heaps, `builders` and `keys`:     *)
(* a method called on object i reads builders[i] (keys[i]) and the object  *)
(* it returns is allocated at the end of the heap.                         *)
(*                                                                         *)
(* Option<T> is modelled as a sequence: None is <<>>, Some(v) is <<v>>.    *)
(***************************************************************************)
EXTENDS Integers, Sequences, FiniteSets, TLC

VARIABLES
    builders,   \* heap of TxBuilder values, builders[1] is the first one made
    bfrom,      \* bfrom[i]: the setter call that returned builders[i]
    last,       \* the most recent TxBuilder call: operation, receiver, arguments,
                \* and for finish the calls made on the session and the outcome
    poisoned,   \* whether Wallet::wallet_mutex is poisoned
    keys,       \* heap of descriptor keys
    kfrom,      \* kfrom[i]: the call that returned keys[i]
    klast,      \* the most recent key call: operation, receiver, path, outcome
    pc,         \* pc[t]: the Wallet call thread t is in and how far it got
    wallet_holder,  \* the thread holding Wallet::wallet_mutex, 0 if it is free
    psbt_holder,    \* the thread holding PartiallySignedTransaction::internal
    psbt_poisoned,  \* whether PartiallySignedTransaction::internal is poisoned
    blockchain_holder,      \* the thread holding Blockchain::blockchain_mutex
    blockchain_poisoned,    \* whether Blockchain::blockchain_mutex is poisoned
    bump_builders,  \* heap of BumpFeeTxBuilder values
    bump_from,      \* bump_from[i]: the call that returned bump_builders[i]
    bump_last,      \* the most recent BumpFeeTxBuilder call and its outcome
    descriptors,    \* heap of Descriptor values
    dfrom,          \* dfrom[i]: the constructor call that returned descriptors[i]
    dlast           \* the most recent Descriptor or Wallet constructor call

vars == <<builders, bfrom, last, poisoned, keys, kfrom, klast,
          pc, wallet_holder, psbt_holder, psbt_poisoned,
          blockchain_holder, blockchain_poisoned,
          bump_builders, bump_from, bump_last, descriptors, dfrom, dlast>>

txvars == <<builders, bfrom, last, poisoned>>

keyvars == <<keys, kfrom, klast>>

walletvars == <<pc, wallet_holder, psbt_holder, psbt_poisoned,
                blockchain_holder, blockchain_poisoned>>

bumpvars == <<bump_builders, bump_from, bump_last>>

descvars == <<descriptors, dfrom, dlast>>

None == <<>>

Some(v) == <<v>>

----------------------------------------------------------------------------
(* Bounds.                                                                 *)

\* Objects a run allocates in the builder heap (the first one included).
MaxBuilders == 3

\* Objects a run allocates in the key heap (the first one included).
MaxKeys == 3

\* Threads calling into one Wallet.
MaxThreads == 2

\* Unspent outputs Wallet::list_unspent finds in the database.
MaxUnspent == 2

\* Objects a run allocates in the heap of fee-bump builders.
MaxBumpBuilders == 3

\* Descriptors a run makes.
MaxDescriptors == 2

----------------------------------------------------------------------------
(* Input domains of the transaction builder.                               *)

Scripts == {"s1", "s2"}

Amounts == {1000, 2000}

\* ScriptAmount values handed to set_recipients.
ScriptAmounts == {[script |-> "s1", amount |-> 1000], [script |-> "s2", amount |-> 2000]}

ScriptAmountLists ==
    {<<>>} \cup {<<x>> : x \in ScriptAmounts}
           \cup {<<x, y>> : x \in ScriptAmounts, y \in ScriptAmounts}

\* Strings that Txid::from_str accepts (64 hex digits), by name.
TxidStrings == {"a1", "b2", "c3"}

\* The outpoint the wallet holds, one it does not hold, and one whose txid
\* string is no transaction id.
OutPointHeld == [txid |-> "a1", vout |-> 0]

OutPointUnknown == [txid |-> "b2", vout |-> 1]

OutPointMalformed == [txid |-> "xyz", vout |-> 0]

OutPoints == {OutPointHeld, OutPointUnknown, OutPointMalformed}

OutPointLists ==
    {<<>>, <<OutPointHeld>>, <<OutPointUnknown>>, <<OutPointMalformed>>,
     <<OutPointHeld, OutPointHeld>>, <<OutPointUnknown, OutPointHeld>>,
     <<OutPointHeld, OutPointMalformed>>}

\* The unspent outputs in the wallet's database.
WalletUtxos == {OutPointHeld}

\* The satoshi each of them holds.
FundedValue == 50000

FeeRates == {1, 2}

FeeAmounts == {110, 220}

\* A u32 as its two 16-bit halves (hi * 65536 + lo).
U32(hi, lo) == [hi |-> hi, lo |-> lo]

\* u32 sequence numbers: 1, 0xFFFFFFFD (the last value that signals RBF) and
\* 0xFFFFFFFE.
Sequences32 == {U32(0, 1), U32(65535, 65533), U32(65535, 65534)}

DataPayloads == {<<>>, <<1>>, <<1, 2>>}

----------------------------------------------------------------------------
(* TxBuilder: the value and its setters.                                   *)

RbfDefault == [kind |-> "Default"]

RbfValue(n) == [kind |-> "Value", n |-> n]

\* TxBuilder::new
TxBuilderNew ==
    [recipients             |-> <<>>,
     utxos                  |-> <<>>,
     unspendable            |-> {},
     change_policy          |-> "ChangeAllowed",
     manually_selected_only |-> FALSE,
     fee_rate               |-> None,
     fee_absolute           |-> None,
     drain_wallet           |-> FALSE,
     drain_to               |-> None,
     rbf                    |-> None,
     data                   |-> <<>>]

add_recipient(self, script, amount) ==
    [self EXCEPT !.recipients = self.recipients \o <<<<script, amount>>>>]

\* A set_recipients that keeps the recipients already listed.
set_recipients_appends(self, recipients) ==
    [self EXCEPT !.recipients = self.recipients \o
        [i \in 1..Len(recipients) |-> <<recipients[i].script, recipients[i].amount>>]]

set_recipients(self, recipients) ==
    [self EXCEPT !.recipients =
        [i \in 1..Len(recipients) |-> <<recipients[i].script, recipients[i].amount>>]]

add_unspendable(self, unspendable) ==
    [self EXCEPT !.unspendable = self.unspendable \cup {unspendable}]

\* An add_utxos that skips the outpoints the list already holds.
add_utxos_dedup(self, outpoints) ==
    [self EXCEPT !.utxos = self.utxos \o
        SelectSeq(outpoints, LAMBDA o : \A i \in DOMAIN self.utxos : self.utxos[i] # o)]

add_utxos(self, outpoints) ==
    [self EXCEPT !.utxos = self.utxos \o outpoints]

add_utxo(self, outpoint) == add_utxos(self, <<outpoint>>)

do_not_spend_change(self) == [self EXCEPT !.change_policy = "ChangeForbidden"]

manually_selected_only(self) == [self EXCEPT !.manually_selected_only = TRUE]

\* An only_spend_change that sets the policy of do_not_spend_change.
only_spend_change_forbids(self) == [self EXCEPT !.change_policy = "ChangeForbidden"]

only_spend_change(self) == [self EXCEPT !.change_policy = "OnlyChange"]

\* An unspendable that adds the list to the set instead of replacing it.
unspendable_extends(self, list) ==
    [self EXCEPT !.unspendable = self.unspendable \cup {list[i] : i \in 1..Len(list)}]

unspendable(self, list) ==
    [self EXCEPT !.unspendable = {list[i] : i \in 1..Len(list)}]

\* A fee_rate that keeps one fee policy: it unsets the absolute fee.
fee_rate_exclusive(self, sat_per_vb) ==
    [self EXCEPT !.fee_rate = Some(sat_per_vb), !.fee_absolute = None]

fee_rate(self, sat_per_vb) == [self EXCEPT !.fee_rate = Some(sat_per_vb)]

\* A fee_absolute that keeps one fee policy, as the wallet library's builder does.
fee_absolute_exclusive(self, fee_amount) ==
    [self EXCEPT !.fee_absolute = Some(fee_amount), !.fee_rate = None]

fee_absolute(self, fee_amount) == [self EXCEPT !.fee_absolute = Some(fee_amount)]

drain_wallet(self) == [self EXCEPT !.drain_wallet = TRUE]

drain_to(self, script) == [self EXCEPT !.drain_to = Some(script)]

enable_rbf(self) == [self EXCEPT !.rbf = Some(RbfDefault)]

enable_rbf_with_sequence(self, nsequence) ==
    [self EXCEPT !.rbf = Some(RbfValue(nsequence))]

\* An add_data that adds the bytes to the payload the builder holds.
add_data_appends(self, data) == [self EXCEPT !.data = self.data \o data]

add_data(self, data) == [self EXCEPT !.data = data]

\* A builder that updates the receiver in place and returns a copy of it.
ArcNewInPlace(heap, self, value) == Append([heap EXCEPT ![self] = value], value)

\* Arc::new(TxBuilder { .., ..self.clone() }): the returned builder is a new
\* object; the receiver (heap[self]) is only read.
ArcNew(heap, self, value) == Append(heap, value)

----------------------------------------------------------------------------
(* TxBuilder::finish.                                                      *)

Call(name, arg) == [call |-> name, arg |-> arg]

\* impl From<&OutPoint> for BdkOutPoint unwraps Txid::from_str: it panics on
\* a txid string that is no transaction id.
OutPointConverts(o) == o.txid \in TxidStrings

RecipientCalls(self) ==
    [i \in 1..Len(self.recipients) |-> Call("add_recipient", self.recipients[i])]

\* finish with the absolute fee applied before the fee rate.
TailCallsFeeSwapped(self) ==
    (IF self.manually_selected_only THEN <<Call("manually_selected_only", <<>>)>> ELSE <<>>)
    \o (IF self.fee_absolute # None THEN <<Call("fee_absolute", self.fee_absolute[1])>> ELSE <<>>)
    \o (IF self.fee_rate # None THEN <<Call("fee_rate", self.fee_rate[1])>> ELSE <<>>)
    \o (IF self.drain_wallet THEN <<Call("drain_wallet", <<>>)>> ELSE <<>>)
    \o (IF self.drain_to # None THEN <<Call("drain_to", self.drain_to[1])>> ELSE <<>>)
    \o (IF self.rbf # None
        THEN IF self.rbf[1].kind = "Default"
             THEN <<Call("enable_rbf", <<>>)>>
             ELSE <<Call("enable_rbf_with_sequence", self.rbf[1].n)>>
        ELSE <<>>)
    \o (IF self.data # <<>> THEN <<Call("add_data", self.data)>> ELSE <<>>)

\* finish with the RBF signaling applied before the drain options.
TailCallsRbfEarly(self) ==
    (IF self.manually_selected_only THEN <<Call("manually_selected_only", <<>>)>> ELSE <<>>)
    \o (IF self.fee_rate # None THEN <<Call("fee_rate", self.fee_rate[1])>> ELSE <<>>)
    \o (IF self.fee_absolute # None THEN <<Call("fee_absolute", self.fee_absolute[1])>> ELSE <<>>)
    \o (IF self.rbf # None
        THEN IF self.rbf[1].kind = "Default"
             THEN <<Call("enable_rbf", <<>>)>>
             ELSE <<Call("enable_rbf_with_sequence", self.rbf[1].n)>>
        ELSE <<>>)
    \o (IF self.drain_wallet THEN <<Call("drain_wallet", <<>>)>> ELSE <<>>)
    \o (IF self.drain_to # None THEN <<Call("drain_to", self.drain_to[1])>> ELSE <<>>)
    \o (IF self.data # <<>> THEN <<Call("add_data", self.data)>> ELSE <<>>)

\* finish asking for default signaling whatever RBF value the builder holds.
TailCallsRbfValueDropped(self) ==
    (IF self.manually_selected_only THEN <<Call("manually_selected_only", <<>>)>> ELSE <<>>)
    \o (IF self.fee_rate # None THEN <<Call("fee_rate", self.fee_rate[1])>> ELSE <<>>)
    \o (IF self.fee_absolute # None THEN <<Call("fee_absolute", self.fee_absolute[1])>> ELSE <<>>)
    \o (IF self.drain_wallet THEN <<Call("drain_wallet", <<>>)>> ELSE <<>>)
    \o (IF self.drain_to # None THEN <<Call("drain_to", self.drain_to[1])>> ELSE <<>>)
    \o (IF self.rbf # None THEN <<Call("enable_rbf", <<>>)>> ELSE <<>>)
    \o (IF self.data # <<>> THEN <<Call("add_data", self.data)>> ELSE <<>>)

\* A finish that does not hand the builder's fee rate to the session.
TailCallsFeeRateDropped(self) ==
    (IF self.manually_selected_only THEN <<Call("manually_selected_only", <<>>)>> ELSE <<>>)
    \o (IF self.fee_absolute # None THEN <<Call("fee_absolute", self.fee_absolute[1])>> ELSE <<>>)
    \o (IF self.drain_wallet THEN <<Call("drain_wallet", <<>>)>> ELSE <<>>)
    \o (IF self.drain_to # None THEN <<Call("drain_to", self.drain_to[1])>> ELSE <<>>)
    \o (IF self.rbf # None
        THEN IF self.rbf[1].kind = "Default"
             THEN <<Call("enable_rbf", <<>>)>>
             ELSE <<Call("enable_rbf_with_sequence", self.rbf[1].n)>>
        ELSE <<>>)
    \o (IF self.data # <<>> THEN <<Call("add_data", self.data)>> ELSE <<>>)

\* The calls finish makes on the session between the forced UTXOs and the
\* session's own finish.
TailCalls(self) ==
    (IF self.manually_selected_only THEN <<Call("manually_selected_only", <<>>)>> ELSE <<>>)
    \o (IF self.fee_rate # None THEN <<Call("fee_rate", self.fee_rate[1])>> ELSE <<>>)
    \o (IF self.fee_absolute # None THEN <<Call("fee_absolute", self.fee_absolute[1])>> ELSE <<>>)
    \o (IF self.drain_wallet THEN <<Call("drain_wallet", <<>>)>> ELSE <<>>)
    \o (IF self.drain_to # None THEN <<Call("drain_to", self.drain_to[1])>> ELSE <<>>)
    \o (IF self.rbf # None
        THEN IF self.rbf[1].kind = "Default"
             THEN <<Call("enable_rbf", <<>>)>>
             ELSE <<Call("enable_rbf_with_sequence", self.rbf[1].n)>>
        ELSE <<>>)
    \o (IF self.data # <<>> THEN <<Call("add_data", self.data)>> ELSE <<>>)

\* The body of finish once the wallet lock is held: the calls made on the
\* session, and how the body ends: "panic" (an unwrap failed), "err" (the ?
\* after add_utxos returned early) or "finish" (the session was asked to
\* finish).
FinishBody(self) ==
    LET head == RecipientCalls(self) \o <<Call("change_policy", self.change_policy)>>
        utxosPanic == \E i \in 1..Len(self.utxos) : ~OutPointConverts(self.utxos[i])
        utxosErr == \E i \in 1..Len(self.utxos) : self.utxos[i] \notin WalletUtxos
        withUtxos == IF self.utxos # <<>>
                     THEN head \o <<Call("add_utxos", self.utxos)>>
                     ELSE head
        unspPanic == \E o \in self.unspendable : ~OutPointConverts(o)
        withUnsp == IF self.unspendable # {}
                    THEN withUtxos \o <<Call("unspendable", self.unspendable)>>
                    ELSE withUtxos
    IN  IF self.utxos # <<>> /\ utxosPanic
          THEN [calls |-> head, end |-> "panic"]
        ELSE IF self.utxos # <<>> /\ utxosErr
          THEN [calls |-> withUtxos, end |-> "err"]
        ELSE IF self.unspendable # {} /\ unspPanic
          THEN [calls |-> withUtxos, end |-> "panic"]
        ELSE [calls |-> withUnsp \o TailCalls(self) \o <<Call("finish", <<>>)>>,
              end |-> "finish"]

\* a < b on u32 values.
U32Less(a, b) == a.hi < b.hi \/ (a.hi = b.hi /\ a.lo < b.lo)

\* The first sequence number that does not signal RBF, 0xFFFFFFFE.
MinNoRbf == U32(65535, 65534)

\* Sequence::is_rbf
is_rbf(nsequence) == U32Less(nsequence, MinNoRbf)

\* A call named name is among the calls.
HasCall(calls, name) == \E i \in DOMAIN calls : calls[i].call = name

\* The calls named name among the calls made on a session, in their order.
CallsNamed(calls, name) == SelectSeq(calls, LAMBDA c : c.call = name)

RECURSIVE SumOf(_)
SumOf(amounts) ==
    IF amounts = <<>> THEN 0 ELSE Head(amounts) + SumOf(Tail(amounts))

\* The keychain that received the wallet's outputs: the funded wallet of the
\* tests is paid on an address of its external descriptor.
UtxoKeychain(o) == "External"

\* ChangeSpendPolicy::is_satisfied_by
PolicySatisfiedBy(policy, o) ==
    CASE policy = "ChangeForbidden" -> UtxoKeychain(o) = "External"
      [] policy = "OnlyChange" -> UtxoKeychain(o) = "Internal"
      [] OTHER -> TRUE

\* The virtual size the session charges for: ten bytes of the transaction
\* itself, 69 for each input of the wallet with its satisfaction, 31 for each
\* output that pays a script of the model (a witness program of 20 bytes),
\* and 11 and the payload for a data output.  One input and one paying
\* output are the 110 vbytes of the tests.
VBytes(inputs, paying, data) ==
    10 + 69 * inputs + 31 * paying + (IF data # <<>> THEN 11 + Len(data) ELSE 0)

\* The rate the session starts with, in satoshi per vbyte.
DefaultFeeRate == 1

\* The transaction that tx_builder.finish() of a session that wallet
\* .build_tx() made creates from the calls, None when it creates none.  The
\* inputs are the forced outputs and, where drain_wallet asks for them or
\* nothing is forced, the wallet's outputs that the policy, the unspendable
\* set and manually_selected_only leave.  add_data is one more recipient, of
\* a script that carries the payload and no value.  What the inputs hold
\* beyond recipients and fee is paid to the script of drain_to, or as change
\* to the wallet.  The fee is what the last fee call asked for: an absolute
\* amount, or the rate times the virtual size.  There is no transaction
\* without an input, or without an output asked for (a recipient, a
\* payload, or drain_to).  (The session shuffles the outputs: their order
\* in the model is that of the calls.)
CreateTx(calls) ==
    LET recipients == CallsNamed(calls, "add_recipient")
        policy == CallsNamed(calls, "change_policy")[1].arg
        forced == IF HasCall(calls, "add_utxos")
                  THEN CallsNamed(calls, "add_utxos")[1].arg ELSE <<>>
        excluded == IF HasCall(calls, "unspendable")
                    THEN CallsNamed(calls, "unspendable")[1].arg ELSE {}
        optional == IF HasCall(calls, "manually_selected_only")
                    THEN {}
                    ELSE {o \in WalletUtxos :
                            /\ PolicySatisfiedBy(policy, o)
                            /\ o \notin excluded
                            /\ \A i \in DOMAIN forced : forced[i] # o}
        RECURSIVE seqOf(_)
        seqOf(set) == IF set = {} THEN <<>>
                      ELSE LET o == CHOOSE x \in set : TRUE
                           IN  <<o>> \o seqOf(set \ {o})
        inputs == IF HasCall(calls, "drain_wallet") \/ forced = <<>>
                  THEN forced \o seqOf(optional) ELSE forced
        data == IF HasCall(calls, "add_data")
                THEN CallsNamed(calls, "add_data")[1].arg ELSE <<>>
        drain == CallsNamed(calls, "drain_to")
        feeCalls == SelectSeq(calls, LAMBDA c : c.call \in {"fee_rate", "fee_absolute"})
        paid == [i \in DOMAIN recipients |->
                    [script |-> recipients[i].arg[1], value |-> recipients[i].arg[2],
                     data |-> <<>>]]
        carried == IF data # <<>>
                   THEN <<[script |-> "OP_RETURN", value |-> 0, data |-> data]>> ELSE <<>>
        fee == IF feeCalls # <<>> /\ feeCalls[Len(feeCalls)].call = "fee_absolute"
               THEN feeCalls[Len(feeCalls)].arg
               ELSE (IF feeCalls # <<>> THEN feeCalls[Len(feeCalls)].arg ELSE DefaultFeeRate)
                    * VBytes(Len(inputs), Len(paid) + 1, data)
        rest == Len(inputs) * FundedValue
                 - SumOf([i \in DOMAIN paid |-> paid[i].value]) - fee
    IN  IF inputs = <<>> \/ (paid = <<>> /\ carried = <<>> /\ drain = <<>>) \/ rest <= 0
        THEN None
        ELSE Some([inputs |-> inputs,
                   outputs |-> paid \o carried
                               \o <<[script |-> IF drain # <<>> THEN drain[1].arg ELSE "change",
                                     value |-> rest, data |-> <<>>]>>,
                   fee |-> fee])

\* tx_builder.finish(): the outcomes of the session's own finish after the
\* calls made on it.  A sequence number given to enable_rbf_with_sequence
\* that is higher than 0xFFFFFFFD is an error.  A fee-bump session produces
\* a transaction or fails (on the fee of the transaction it replaces); any
\* other session produces the transaction that the calls ask for, and fails
\* when there is none.
SessionFinish(calls) ==
    IF \E i \in DOMAIN calls :
           calls[i].call = "enable_rbf_with_sequence" /\ ~is_rbf(calls[i].arg)
    THEN {"err"}
    ELSE IF HasCall(calls, "build_fee_bump") THEN {"ok", "err"}
    ELSE IF CreateTx(calls) = None THEN {"err"}
    ELSE {"ok"}

----------------------------------------------------------------------------
(* Actions of the transaction builder.                                     *)

Returned(op, self, arg) ==
    [op |-> op, self |-> self, arg |-> arg, calls |-> <<>>, result |-> "returned"]

Setter(op, self, arg, value) ==
    /\ Len(builders) < MaxBuilders
    /\ builders' = ArcNew(builders, self, value)
    /\ bfrom' = Append(bfrom, [op |-> op, self |-> self, arg |-> arg])
    /\ last' = Returned(op, self, arg)
    /\ UNCHANGED <<poisoned, keyvars, bumpvars, descvars, walletvars>>

AddRecipient ==
    \E i \in DOMAIN builders, s \in Scripts, a \in Amounts :
        Setter("add_recipient", i, <<s, a>>, add_recipient(builders[i], s, a))

SetRecipients ==
    \E i \in DOMAIN builders, l \in ScriptAmountLists :
        Setter("set_recipients", i, <<l>>, set_recipients(builders[i], l))

AddUnspendable ==
    \E i \in DOMAIN builders, o \in OutPoints :
        Setter("add_unspendable", i, <<o>>, add_unspendable(builders[i], o))

AddUtxo ==
    \E i \in DOMAIN builders, o \in OutPoints :
        Setter("add_utxo", i, <<o>>, add_utxo(builders[i], o))

AddUtxos ==
    \E i \in DOMAIN builders, l \in OutPointLists :
        Setter("add_utxos", i, <<l>>, add_utxos(builders[i], l))

DoNotSpendChange ==
    \E i \in DOMAIN builders :
        Setter("do_not_spend_change", i, <<>>, do_not_spend_change(builders[i]))

ManuallySelectedOnly ==
    \E i \in DOMAIN builders :
        Setter("manually_selected_only", i, <<>>, manually_selected_only(builders[i]))

OnlySpendChange ==
    \E i \in DOMAIN builders :
        Setter("only_spend_change", i, <<>>, only_spend_change(builders[i]))

Unspendable ==
    \E i \in DOMAIN builders, l \in OutPointLists :
        Setter("unspendable", i, <<l>>, unspendable(builders[i], l))

FeeRate ==
    \E i \in DOMAIN builders, r \in FeeRates :
        Setter("fee_rate", i, <<r>>, fee_rate(builders[i], r))

FeeAbsolute ==
    \E i \in DOMAIN builders, f \in FeeAmounts :
        Setter("fee_absolute", i, <<f>>, fee_absolute(builders[i], f))

DrainWallet ==
    \E i \in DOMAIN builders :
        Setter("drain_wallet", i, <<>>, drain_wallet(builders[i]))

DrainTo ==
    \E i \in DOMAIN builders, s \in Scripts :
        Setter("drain_to", i, <<s>>, drain_to(builders[i], s))

EnableRbf ==
    \E i \in DOMAIN builders :
        Setter("enable_rbf", i, <<>>, enable_rbf(builders[i]))

EnableRbfWithSequence ==
    \E i \in DOMAIN builders, n \in Sequences32 :
        Setter("enable_rbf_with_sequence", i, <<n>>, enable_rbf_with_sequence(builders[i], n))

AddData ==
    \E i \in DOMAIN builders, d \in DataPayloads :
        Setter("add_data", i, <<d>>, add_data(builders[i], d))

\* A finish that consumes the builder it compiled: the builder is left as new.
FinishConsumes ==
    \E i \in DOMAIN builders :
        LET body == FinishBody(builders[i]) IN
        /\ ~poisoned
        /\ \E r \in (IF body.end = "finish" THEN SessionFinish(body.calls)
                                   ELSE {body.end}) :
              last' = [op |-> "finish", self |-> i, arg |-> <<>>,
                       calls |-> body.calls, result |-> r,
                       tx |-> IF r = "ok" THEN CreateTx(body.calls) ELSE None]
        /\ poisoned' = (body.end = "panic")
        /\ builders' = [builders EXCEPT ![i] = TxBuilderNew]
        /\ UNCHANGED <<bfrom, keyvars, bumpvars, descvars, walletvars>>

\* TxBuilder::finish(&self, wallet). get_wallet panics on a poisoned mutex;
\* a panic while the guard is held poisons the mutex; the outcome of the
\* session's own finish is the result of the call.
Finish ==
    \E i \in DOMAIN builders :
        LET body == FinishBody(builders[i]) IN
        /\ IF poisoned
             THEN /\ last' = [op |-> "finish", self |-> i, arg |-> <<>>,
                              calls |-> <<>>, result |-> "panic", tx |-> None]
                  /\ poisoned' = poisoned
             ELSE /\ \E r \in (IF body.end = "finish" THEN SessionFinish(body.calls)
                                   ELSE {body.end}) :
                        last' = [op |-> "finish", self |-> i, arg |-> <<>>,
                                 calls |-> body.calls, result |-> r,
                                 tx |-> IF r = "ok" THEN CreateTx(body.calls) ELSE None]
                  /\ poisoned' = (body.end = "panic")
        /\ UNCHANGED <<builders, bfrom, keyvars, bumpvars, descvars, walletvars>>

----------------------------------------------------------------------------
(* The builder a run starts from: a new one, or one on which every setter  *)
(* kind was called, in the reverse of the order finish applies them.       *)

FullBuilder ==
    add_recipient(
     add_recipient(
      only_spend_change(
       add_utxos(
        unspendable(
         manually_selected_only(
          fee_rate(
           fee_absolute(
            drain_wallet(
             drain_to(
              enable_rbf_with_sequence(
               add_data(TxBuilderNew, <<1>>),
               U32(0, 1)),
              "s2")),
            220),
           2)),
         <<OutPointUnknown>>),
        <<OutPointHeld>>)),
      "s1", 1000),
     "s2", 2000)

\* The builder of the drain tests: every output of the wallet, paid to s1.
DrainingBuilder == drain_to(drain_wallet(TxBuilderNew), "s1")

InitialBuilders == {TxBuilderNew, FullBuilder, DrainingBuilder}

TxIdle == [op |-> "new", self |-> 0, arg |-> <<>>, calls |-> <<>>, result |-> "returned"]

\* The provenance of the builder a run starts from.
Given == [op |-> "given", self |-> 0, arg |-> <<>>]

KeyIdle == [op |-> "none", self |-> 0, path |-> <<>>, ok |-> TRUE, err |-> "none"]

Threads == 1..MaxThreads

\* No thread is in a Wallet call and the mutexes are free.
WalletIdle ==
    /\ pc = [t \in Threads |-> [op |-> "none", at |-> "idle", arg |-> <<>>,
                                 left |-> 0, result |-> "none"]]
    /\ wallet_holder = 0
    /\ psbt_holder = 0
    /\ psbt_poisoned = FALSE
    /\ blockchain_holder = 0
    /\ blockchain_poisoned = FALSE

BumpIdle ==
    [op |-> "none", self |-> 0, arg |-> <<>>, calls |-> <<>>, result |-> "none",
     error |-> "none"]

\* No BumpFeeTxBuilder was made.
NoBumpBuilders ==
    /\ bump_builders = <<>>
    /\ bump_from = <<>>
    /\ bump_last = BumpIdle

DescriptorIdle ==
    [op |-> "none", arg |-> <<>>, ok |-> TRUE, err |-> "none"]

\* No Descriptor was made.
NoDescriptors ==
    /\ descriptors = <<>>
    /\ dfrom = <<>>
    /\ dlast = DescriptorIdle

TxInit ==
    /\ builders \in {<<b>> : b \in InitialBuilders}
    /\ bfrom = <<Given>>
    /\ last = TxIdle
    /\ poisoned = FALSE
    /\ keys = <<>>
    /\ kfrom = <<>>
    /\ klast = KeyIdle
    /\ WalletIdle
    /\ NoBumpBuilders
    /\ NoDescriptors

TxNext ==
    \/ AddRecipient
    \/ SetRecipients
    \/ AddUnspendable
    \/ AddUtxo
    \/ AddUtxos
    \/ DoNotSpendChange
    \/ ManuallySelectedOnly
    \/ OnlySpendChange
    \/ Unspendable
    \/ FeeRate
    \/ FeeAbsolute
    \/ DrainWallet
    \/ DrainTo
    \/ EnableRbf
    \/ EnableRbfWithSequence
    \/ AddData
    \/ Finish

TxSpec == TxInit /\ [][TxNext]_vars

----------------------------------------------------------------------------
(* Descriptor keys.                                                        *)
(*                                                                         *)
(* A key is DescriptorSecretKey (secret = TRUE) or DescriptorPublicKey,    *)
(* of variant "XKey" (XPrv / XPub, a DescriptorXKey) or "Single".  The     *)
(* extended key `xkey` is named by the seed it descends from and the       *)
(* steps from that seed: BIP32 child derivation appends a step, and a      *)
(* private key and its public key carry the same name.  A fingerprint is   *)
(* the name of the key it was computed from.                               *)

Normal(i) == [index |-> i, hardened |-> FALSE]

Hardened(i) == [index |-> i, hardened |-> TRUE]

\* The derivation paths handed to derive and extend, as DerivationPath::new
\* parsed them: "m", "m/0", "m/1h", "m/0/1", "m/1h/0", "m/0/1h".
Paths ==
    {<<>>, <<Normal(0)>>, <<Hardened(1)>>, <<Normal(0), Normal(1)>>,
     <<Hardened(1), Normal(0)>>, <<Normal(0), Hardened(1)>>}

IsNormalPath(path) == \A i \in DOMAIN path : ~path[i].hardened

XKey(seed, steps) == [seed |-> seed, steps |-> steps]

\* ExtendedPrivKey::derive_priv and, for a path of normal steps,
\* ExtendedPubKey::derive_pub.
DeriveChild(xkey, path) == XKey(xkey.seed, xkey.steps \o path)

\* ExtendedPrivKey::fingerprint(&secp) and ExtendedPubKey::fingerprint().
Fingerprint(xkey) == xkey

\* DerivationPath::extend: the steps of `path` after those of `base`.
ExtendPath(base, path) == base \o path

DescriptorKey(secret, variant, origin, xkey, derivation_path, wildcard) ==
    [secret |-> secret, variant |-> variant, origin |-> origin, xkey |-> xkey,
     derivation_path |-> derivation_path, wildcard |-> wildcard]

Ok(key) == [ok |-> TRUE, key |-> <<key>>, err |-> "none"]

Err(error) == [ok |-> FALSE, key |-> <<>>, err |-> error]

\* DescriptorSecretKey::new: the master key of a mnemonic.
DescriptorSecretKeyNew(seed) ==
    DescriptorKey(TRUE, "XKey", None, XKey(seed, <<>>), <<>>, "Unhardened")

\* A derive that takes the receiver's own fingerprint whatever its origin.
secret_derive_own_fingerprint(self, path) ==
    IF self.variant = "XKey"
    THEN Ok(DescriptorKey(TRUE, "XKey",
            Some(<<Fingerprint(self.xkey),
                   IF self.origin # None THEN ExtendPath(self.origin[1][2], path) ELSE path>>),
            DeriveChild(self.xkey, path), <<>>, self.wildcard))
    ELSE Err("Cannot derive from a single key")

\* A derive that leaves a key without origin without one on the path "m".
secret_derive_no_origin_on_master(self, path) ==
    IF self.variant = "XKey"
    THEN Ok(DescriptorKey(TRUE, "XKey",
            IF self.origin # None
              THEN Some(<<self.origin[1][1], ExtendPath(self.origin[1][2], path)>>)
              ELSE IF path = <<>> THEN None ELSE Some(<<Fingerprint(self.xkey), path>>),
            DeriveChild(self.xkey, path), <<>>, self.wildcard))
    ELSE Err("Cannot derive from a single key")

\* A derive that walks the receiver's pending trailing path before `path`.
secret_derive_through_trailing(self, path) ==
    IF self.variant = "XKey"
    THEN Ok(DescriptorKey(TRUE, "XKey",
            IF self.origin # None
              THEN Some(<<self.origin[1][1],
                          ExtendPath(self.origin[1][2], self.derivation_path \o path)>>)
              ELSE Some(<<Fingerprint(self.xkey), self.derivation_path \o path>>),
            DeriveChild(self.xkey, self.derivation_path \o path), <<>>, self.wildcard))
    ELSE Err("Cannot derive from a single key")

\* A derive that starts the origin path afresh at `path`.
secret_derive_origin_path_replaced(self, path) ==
    IF self.variant = "XKey"
    THEN Ok(DescriptorKey(TRUE, "XKey",
            IF self.origin # None
              THEN Some(<<self.origin[1][1], path>>)
              ELSE Some(<<Fingerprint(self.xkey), path>>),
            DeriveChild(self.xkey, path), <<>>, self.wildcard))
    ELSE Err("Cannot derive from a single key")

\* DescriptorSecretKey::derive
secret_derive(self, path) ==
    IF self.variant = "XKey"
    THEN Ok(DescriptorKey(TRUE, "XKey",
            IF self.origin # None
              THEN Some(<<self.origin[1][1], ExtendPath(self.origin[1][2], path)>>)
              ELSE Some(<<Fingerprint(self.xkey), path>>),
            DeriveChild(self.xkey, path), <<>>, self.wildcard))
    ELSE Err("Cannot derive from a single key")

\* An extend that puts the new steps before the pending ones.
secret_extend_prepends(self, path) ==
    IF self.variant = "XKey"
    THEN Ok([self EXCEPT !.derivation_path = ExtendPath(path, self.derivation_path)])
    ELSE Err("Cannot extend from a single key")

\* An extend that starts the trailing path afresh.
secret_extend_replaces(self, path) ==
    IF self.variant = "XKey"
    THEN Ok([self EXCEPT !.derivation_path = path])
    ELSE Err("Cannot extend from a single key")

\* DescriptorSecretKey::extend
secret_extend(self, path) ==
    IF self.variant = "XKey"
    THEN Ok(DescriptorKey(TRUE, "XKey", self.origin, self.xkey,
            ExtendPath(self.derivation_path, path), self.wildcard))
    ELSE Err("Cannot extend from a single key")

\* The steps of `path` up to its last hardened step.
HardenedPrefix(path) ==
    LET hard == {i \in DOMAIN path : path[i].hardened}
    IN  IF hard = {} THEN <<>>
        ELSE SubSeq(path, 1, CHOOSE i \in hard : \A j \in hard : j <= i)

\* DescriptorSecretKey::as_public. The call is the key library's to_public:
\* for an extended key it applies the trailing path's steps up to the last
\* hardened one to the private key, records them in the origin (the
\* receiver's own fingerprint when it had none), and keeps the normal steps
\* that follow as the trailing path; a single key keeps its origin.
as_public(self) ==
    IF self.variant = "XKey"
    THEN LET hardened_path == HardenedPrefix(self.derivation_path)
             unhardened_path == SubSeq(self.derivation_path, Len(hardened_path) + 1,
                                       Len(self.derivation_path))
         IN  DescriptorKey(FALSE, "XKey",
                IF self.origin # None
                  THEN Some(<<self.origin[1][1], self.origin[1][2] \o hardened_path>>)
                  ELSE IF hardened_path = <<>> THEN None
                       ELSE Some(<<Fingerprint(self.xkey), hardened_path>>),
                DeriveChild(self.xkey, hardened_path), unhardened_path, self.wildcard)
    ELSE [self EXCEPT !.secret = FALSE]

\* DescriptorSecretKey::secret_bytes: the private scalar of an extended key;
\* the Single arm is unreachable!(), a panic.
secret_bytes(self) ==
    IF self.variant = "XKey"
    THEN [end |-> "returned", bytes |-> <<self.xkey>>]
    ELSE [end |-> "panic", bytes |-> <<>>]

\* A public derive that walks through hardened steps as through normal ones.
public_derive_through_hardened(self, path) ==
    IF self.variant = "XKey"
    THEN Ok(DescriptorKey(FALSE, "XKey",
            IF self.origin # None
              THEN Some(<<self.origin[1][1], ExtendPath(self.origin[1][2], path)>>)
              ELSE Some(<<Fingerprint(self.xkey), path>>),
            DeriveChild(self.xkey, path), <<>>, self.wildcard))
    ELSE Err("Cannot derive from a single key")

\* DescriptorPublicKey::derive: derive_pub fails on a hardened step.
public_derive(self, path) ==
    IF self.variant = "XKey"
    THEN IF IsNormalPath(path)
         THEN Ok(DescriptorKey(FALSE, "XKey",
                 IF self.origin # None
                   THEN Some(<<self.origin[1][1], ExtendPath(self.origin[1][2], path)>>)
                   ELSE Some(<<Fingerprint(self.xkey), path>>),
                 DeriveChild(self.xkey, path), <<>>, self.wildcard))
         ELSE Err("Bip32: cannot derive hardened key from public key")
    ELSE Err("Cannot derive from a single key")

\* An extend that answers a single key with a copy of it.
public_extend_accepts_single(self, path) ==
    IF self.variant = "XKey"
    THEN Ok([self EXCEPT !.derivation_path = ExtendPath(self.derivation_path, path)])
    ELSE Ok(self)

\* DescriptorPublicKey::extend
public_extend(self, path) ==
    IF self.variant = "XKey"
    THEN Ok(DescriptorKey(FALSE, "XKey", self.origin, self.xkey,
            ExtendPath(self.derivation_path, path), self.wildcard))
    ELSE Err("Cannot extend from a single key")

\* derive and extend on either kind of key.
Derive(self, path) ==
    IF self.secret THEN secret_derive(self, path) ELSE public_derive(self, path)

Extend(self, path) ==
    IF self.secret THEN secret_extend(self, path) ELSE public_extend(self, path)

----------------------------------------------------------------------------
(* Actions of the keys.                                                    *)

\* The model follows the keys up to the first call that panics.
KeyRunning == klast.err # "panic"

KeyCall(op, self, path, r) ==
    /\ KeyRunning
    /\ r.ok => Len(keys) < MaxKeys
    /\ keys' = IF r.ok THEN Append(keys, r.key[1]) ELSE keys
    /\ kfrom' = IF r.ok THEN Append(kfrom, [op |-> op, self |-> self, path |-> path])
                ELSE kfrom
    /\ klast' = [op |-> op, self |-> self, path |-> path, ok |-> r.ok, err |-> r.err]
    /\ UNCHANGED <<txvars, walletvars, bumpvars, descvars>>

KeyDerive ==
    \E i \in DOMAIN keys, p \in Paths : KeyCall("derive", i, p, Derive(keys[i], p))

KeyExtend ==
    \E i \in DOMAIN keys, p \in Paths : KeyCall("extend", i, p, Extend(keys[i], p))

KeyAsPublic ==
    \E i \in DOMAIN keys :
        /\ keys[i].secret
        /\ KeyCall("as_public", i, <<>>, Ok(as_public(keys[i])))

KeySecretBytes ==
    \E i \in DOMAIN keys :
        LET r == secret_bytes(keys[i]) IN
        /\ KeyRunning
        /\ keys[i].secret
        /\ klast' = [op |-> "secret_bytes", self |-> i, path |-> <<>>,
                     ok |-> r.end = "returned",
                     err |-> IF r.end = "returned" THEN "none" ELSE "panic"]
        /\ UNCHANGED <<keys, kfrom, txvars, walletvars, bumpvars, descvars>>

\* The keys a run starts from: the master key of a mnemonic, and keys that
\* DescriptorSecretKey::from_string parsed: an extended key with an origin,
\* a trailing path and no wildcard, and a single (WIF) key.
ImportedFingerprint == XKey("imported-root", <<>>)

ImportedKey ==
    DescriptorKey(TRUE, "XKey", Some(<<ImportedFingerprint, <<Hardened(1)>>>>),
                  XKey("seed2", <<>>), <<Normal(1)>>, "None")

SingleKey == DescriptorKey(TRUE, "Single", None, XKey("wif", <<>>), <<>>, "None")

InitialKeys == {DescriptorSecretKeyNew("seed1"), ImportedKey, SingleKey}

KeyInit ==
    /\ keys \in {<<k>> : k \in InitialKeys}
    /\ kfrom = <<[op |-> "new", self |-> 0, path |-> <<>>]>>
    /\ klast = KeyIdle
    /\ builders = <<TxBuilderNew>>
    /\ bfrom = <<Given>>
    /\ last = TxIdle
    /\ poisoned = FALSE
    /\ WalletIdle
    /\ NoBumpBuilders
    /\ NoDescriptors

KeyNext ==
    \/ KeyDerive
    \/ KeyExtend
    \/ KeyAsPublic
    \/ KeySecretBytes

KeySpec == KeyInit /\ [][KeyNext]_vars

----------------------------------------------------------------------------
(* Threads calling into one Wallet.                                        *)
(*                                                                         *)
(* Every call reaches the wallet state through get_wallet, which locks     *)
(* wallet_mutex and returns the guard.  A guard that is a temporary lives  *)
(* to the end of its statement, a guard bound by let to the end of the     *)
(* function; a panic drops the guards the thread holds and poisons their   *)
(* mutexes.  pc[t].at is the thread's position in its call:                *)
(*   "idle"      in no call                                                *)
(*   "lock_psbt" sign: about to lock the transaction (psbt.internal)       *)
(*   "lock_blockchain" sync: in get_blockchain, about to lock              *)
(*               blockchain_mutex                                          *)
(*   "lock"      in get_wallet, about to lock wallet_mutex                 *)
(*   "wallet"    holding the guard, about to call into the wallet state    *)
(*   "session"   finish: the session is made, about to ask it to finish    *)
(*   "drop_psbt" sign: the result is there, the transaction's guard goes   *)
(*   "drop_blockchain" sync: the result is there, the blockchain's guard   *)
(*               goes                                                      *)
(*   "drop"      the result is there, the wallet guard goes                *)
(*   "map"       list_unspent: converting the outputs it was given         *)

WalletOps ==
    {"network", "sync", "get_address", "get_balance", "sign", "list_transactions",
     "list_unspent", "finish", "bump_finish"}

\* The builders handed to TxBuilder::finish: a new one, one with a forced
\* outpoint the wallet does not hold, one with a malformed outpoint.
WalletBuilders ==
    {TxBuilderNew, add_utxo(TxBuilderNew, OutPointUnknown),
     add_utxo(TxBuilderNew, OutPointMalformed)}

At(t, op, at, arg, left, result) ==
    pc' = [pc EXCEPT ![t] = [op |-> op, at |-> at, arg |-> arg, left |-> left,
                             result |-> result]]

\* The call returned (or unwound): the thread is in no call.
Return(t, result) == At(t, pc[t].op, "idle", <<>>, 0, result)

\* A lock that is taken without waiting for its holder.
lock_without_waiting(holder) == TRUE

\* Mutex::lock returns once no thread holds the mutex.
lock(holder) == holder = 0

\* A thread enters a Wallet method, TxBuilder::finish or
\* BumpFeeTxBuilder::finish.
WCall ==
    \E t \in Threads, op \in WalletOps :
        /\ pc[t].at = "idle"
        /\ \E arg \in (IF op = "finish" THEN {<<b>> : b \in WalletBuilders} ELSE {<<>>}) :
              At(t, op, CASE op = "sign" -> "lock_psbt"
                          [] op = "sync" -> "lock_blockchain"
                          [] OTHER -> "lock",
                 arg, 0, "none")
        /\ UNCHANGED <<txvars, keyvars, bumpvars, descvars, wallet_holder, psbt_holder,
                       psbt_poisoned, blockchain_holder, blockchain_poisoned>>

\* Wallet::sign: psbt.internal.lock().unwrap()
LockPsbt ==
    \E t \in Threads :
        /\ pc[t].at = "lock_psbt"
        /\ lock(psbt_holder)
        /\ IF psbt_poisoned
             THEN Return(t, "panic") /\ UNCHANGED psbt_holder
             ELSE /\ psbt_holder' = t
                  /\ At(t, pc[t].op, "lock", pc[t].arg, pc[t].left, "none")
        /\ UNCHANGED <<txvars, keyvars, bumpvars, descvars, wallet_holder, psbt_poisoned,
                       blockchain_holder, blockchain_poisoned>>

\* Wallet::sync: blockchain.get_blockchain(), which is
\* self.blockchain_mutex.lock().expect("blockchain").
LockBlockchain ==
    \E t \in Threads :
        /\ pc[t].at = "lock_blockchain"
        /\ lock(blockchain_holder)
        /\ IF blockchain_poisoned
             THEN Return(t, "panic") /\ UNCHANGED blockchain_holder
             ELSE /\ blockchain_holder' = t
                  /\ At(t, pc[t].op, "lock", pc[t].arg, pc[t].left, "none")
        /\ UNCHANGED <<txvars, keyvars, bumpvars, descvars, wallet_holder, psbt_holder,
                       psbt_poisoned, blockchain_poisoned>>

\* Wallet::get_wallet: self.wallet_mutex.lock().expect("wallet").  On a
\* poisoned mutex expect panics: the guard inside the error is dropped, and
\* so is the transaction's guard when sign holds it and the blockchain's
\* when sync holds it, which poisons them.
GetWallet ==
    \E t \in Threads :
        /\ pc[t].at = "lock"
        /\ lock(wallet_holder)
        /\ IF poisoned
             THEN /\ Return(t, "panic")
                  /\ psbt_holder' = IF psbt_holder = t THEN 0 ELSE psbt_holder
                  /\ psbt_poisoned' = (psbt_poisoned \/ psbt_holder = t)
                  /\ blockchain_holder' =
                       IF blockchain_holder = t THEN 0 ELSE blockchain_holder
                  /\ blockchain_poisoned' = (blockchain_poisoned \/ blockchain_holder = t)
                  /\ UNCHANGED wallet_holder
             ELSE /\ wallet_holder' = t
                  /\ At(t, pc[t].op, "wallet", pc[t].arg, pc[t].left, "none")
                  /\ UNCHANGED <<psbt_holder, psbt_poisoned, blockchain_holder,
                                 blockchain_poisoned>>
        /\ UNCHANGED <<builders, bfrom, last, poisoned, keyvars, bumpvars, descvars>>

\* The results of the wallet methods: network cannot fail, the others
\* return Result.
Results(op) == IF op = "network" THEN {"ok"} ELSE {"ok", "err"}

\* network, sync, get_address, get_balance, sign, list_transactions and
\* list_unspent: the method of the wallet state is called through the guard.
Access ==
    \E t \in Threads :
        /\ pc[t].at = "wallet"
        /\ pc[t].op \notin {"finish", "bump_finish"}
        /\ \E r \in Results(pc[t].op) :
              At(t, pc[t].op, CASE pc[t].op = "sign" -> "drop_psbt"
                                [] pc[t].op = "sync" -> "drop_blockchain"
                                [] OTHER -> "drop",
                 pc[t].arg, pc[t].left, r)
        /\ UNCHANGED <<txvars, keyvars, bumpvars, descvars, wallet_holder, psbt_holder,
                       psbt_poisoned, blockchain_holder, blockchain_poisoned>>

\* TxBuilder::finish from wallet.build_tx() to the last call before the
\* session's finish: a panic unwinds through the guard and poisons the
\* mutex, the ? after add_utxos returns early.  BumpFeeTxBuilder::finish
\* from Txid::from_str to the last call before the session's finish: each
\* failure is returned with ?.
BuildTx ==
    \E t \in Threads :
        /\ pc[t].at = "wallet"
        /\ pc[t].op \in {"finish", "bump_finish"}
        /\ IF pc[t].op = "finish"
             THEN LET body == FinishBody(pc[t].arg[1]) IN
                  CASE body.end = "panic" ->
                         /\ Return(t, "panic")
                         /\ wallet_holder' = 0
                         /\ poisoned' = TRUE
                    [] body.end = "err" ->
                         /\ At(t, "finish", "drop", pc[t].arg, 0, "err")
                         /\ UNCHANGED <<wallet_holder, poisoned>>
                    [] body.end = "finish" ->
                         /\ At(t, "finish", "session", pc[t].arg, 0, "none")
                         /\ UNCHANGED <<wallet_holder, poisoned>>
             ELSE /\ \/ At(t, "bump_finish", "drop", <<>>, 0, "err")
                     \/ At(t, "bump_finish", "session", <<>>, 0, "none")
                  /\ UNCHANGED <<wallet_holder, poisoned>>
        /\ UNCHANGED <<builders, bfrom, last, keyvars, bumpvars, descvars, psbt_holder,
                       psbt_poisoned, blockchain_holder, blockchain_poisoned>>

\* tx_builder.finish() and the conversion of its result, under the guard.
SessionStep ==
    \E t \in Threads :
        /\ pc[t].at = "session"
        /\ \E r \in (IF pc[t].op = "finish"
                      THEN SessionFinish(FinishBody(pc[t].arg[1]).calls)
                      ELSE {"ok", "err"}) :
              At(t, pc[t].op, "drop", pc[t].arg, 0, r)
        /\ UNCHANGED <<txvars, keyvars, bumpvars, descvars, wallet_holder, psbt_holder,
                       psbt_poisoned, blockchain_holder, blockchain_poisoned>>

\* Wallet::sign returns: the local guard of the transaction is dropped
\* before the temporary guard of the wallet.
DropPsbt ==
    \E t \in Threads :
        /\ pc[t].at = "drop_psbt"
        /\ psbt_holder' = 0
        /\ At(t, pc[t].op, "drop", pc[t].arg, pc[t].left, pc[t].result)
        /\ UNCHANGED <<txvars, keyvars, bumpvars, descvars, wallet_holder, psbt_poisoned,
                       blockchain_holder, blockchain_poisoned>>

\* Wallet::sync returns: the local guard of the blockchain is dropped before
\* the temporary guard of the wallet.
DropBlockchain ==
    \E t \in Threads :
        /\ pc[t].at = "drop_blockchain"
        /\ blockchain_holder' = 0
        /\ At(t, pc[t].op, "drop", pc[t].arg, pc[t].left, pc[t].result)
        /\ UNCHANGED <<txvars, keyvars, bumpvars, descvars, wallet_holder, psbt_holder,
                       psbt_poisoned, blockchain_poisoned>>

\* A list_unspent that binds its guard with let: the guard lives while the
\* outputs are converted.
DropGuardAfterMap ==
    \E t \in Threads :
        /\ pc[t].at = "drop"
        /\ IF pc[t].op = "list_unspent"
             THEN /\ UNCHANGED wallet_holder
                  /\ IF pc[t].arg = <<>>
                       THEN IF pc[t].result = "err"
                            THEN Return(t, "err")
                            ELSE \E n \in 0..MaxUnspent :
                                     At(t, "list_unspent", "map", <<"listed">>, n, "none")
                       ELSE At(t, "list_unspent", "map", pc[t].arg, pc[t].left - 1, "none")
             ELSE /\ wallet_holder' = 0
                  /\ Return(t, pc[t].result)
        /\ UNCHANGED <<txvars, keyvars, bumpvars, descvars, psbt_holder, psbt_poisoned,
                       blockchain_holder, blockchain_poisoned>>

\* The guard of the wallet is dropped.  Every call returns then, but
\* list_unspent: its guard goes at the end of the statement that listed the
\* outputs, before it converts them, and the guard of each network() it
\* calls goes before the next output.
DropGuard ==
    \E t \in Threads :
        /\ pc[t].at = "drop"
        /\ wallet_holder' = 0
        /\ IF pc[t].op = "list_unspent"
             THEN IF pc[t].arg = <<>>
                  THEN IF pc[t].result = "err"
                       THEN Return(t, "err")
                       ELSE \E n \in 0..MaxUnspent :
                                At(t, "list_unspent", "map", <<"listed">>, n, "none")
                  ELSE At(t, "list_unspent", "map", pc[t].arg, pc[t].left - 1, "none")
             ELSE Return(t, pc[t].result)
        /\ UNCHANGED <<txvars, keyvars, bumpvars, descvars, psbt_holder, psbt_poisoned,
                       blockchain_holder, blockchain_poisoned>>

\* Wallet::list_unspent converts the next output, calling self.network()
\* for it, or returns the converted outputs.
MapNext ==
    \E t \in Threads :
        /\ pc[t].at = "map"
        /\ IF pc[t].left = 0
             THEN Return(t, "ok")
             ELSE At(t, "list_unspent", "lock", pc[t].arg, pc[t].left, "none")
        /\ UNCHANGED <<txvars, keyvars, bumpvars, descvars, wallet_holder, psbt_holder,
                       psbt_poisoned, blockchain_holder, blockchain_poisoned>>

WalletInit ==
    /\ builders = <<TxBuilderNew>>
    /\ bfrom = <<Given>>
    /\ last = TxIdle
    /\ poisoned = FALSE
    /\ keys = <<>>
    /\ kfrom = <<>>
    /\ klast = KeyIdle
    /\ WalletIdle
    /\ NoBumpBuilders
    /\ NoDescriptors

WalletNext ==
    \/ WCall
    \/ LockPsbt
    \/ LockBlockchain
    \/ GetWallet
    \/ Access
    \/ BuildTx
    \/ SessionStep
    \/ DropPsbt
    \/ DropBlockchain
    \/ DropGuard
    \/ MapNext

WalletSpec == WalletInit /\ [][WalletNext]_vars

\* A step of thread t inside the call it is in.
ThreadStep(t) ==
    /\ \/ LockPsbt
       \/ LockBlockchain
       \/ GetWallet
       \/ Access
       \/ BuildTx
       \/ SessionStep
       \/ DropPsbt
       \/ DropBlockchain
       \/ DropGuard
       \/ MapNext
    /\ pc'[t] # pc[t]

\* The threads under a scheduler that runs every thread that can run, with
\* library calls that return and mutexes that let a thread waiting in lock
\* in when they are released often enough.
WalletFairSpec ==
    WalletInit /\ [][WalletNext]_vars /\ \A t \in Threads : SF_vars(ThreadStep(t))

----------------------------------------------------------------------------
(* BumpFeeTxBuilder.                                                       *)

\* The txid strings given to BumpFeeTxBuilder::new: of a transaction of the
\* wallet that is unconfirmed and signals RBF, of a transaction the wallet
\* does not know, of a transaction of the wallet that does not signal RBF,
\* and a string that is no transaction id.
BumpTxids == {"a1", "b2", "c3", "xyz"}

\* wallet.build_fee_bump(txid): the session, or why there is none.
build_fee_bump(txid) ==
    CASE txid = "a1" -> "ok"
      [] txid = "c3" -> "IrreplaceableTransaction"
      [] OTHER -> "TransactionNotFound"

\* The scripts the outputs of the transaction "a1" pay.
OriginalOutputs == {"s1", "s2"}

\* The strings given to allow_shrinking: the address of script s1, the
\* address of a script that no output of "a1" pays, and no address at all.
AddressStrings == {"addr:s1", "addr:s3", "l0l"}

\* BdkAddress::from_str(address) followed by script_pubkey(): the script of
\* the address, None for a string that is no address.
AddressFromStr(address) ==
    CASE address = "addr:s1" -> Some("s1")
      [] address = "addr:s3" -> Some("s3")
      [] OTHER -> None

\* BumpFeeTxBuilder::new
BumpFeeTxBuilderNew(txid, sat_per_vb) ==
    [txid |-> txid, fee_rate |-> sat_per_vb, allow_shrinking |-> None, rbf |-> None]

\* BumpFeeTxBuilder::allow_shrinking.  (enable_rbf and
\* enable_rbf_with_sequence write the rbf field as those of TxBuilder do.)
allow_shrinking(self, address) == [self EXCEPT !.allow_shrinking = Some(address)]

\* The calls on the session for the builder's RBF value.
RbfCalls(self) ==
    IF self.rbf # None
    THEN IF self.rbf[1].kind = "Default"
         THEN <<Call("enable_rbf", <<>>)>>
         ELSE <<Call("enable_rbf_with_sequence", self.rbf[1].n)>>
    ELSE <<>>

\* A finish that looks at the address before it looks for the transaction.
BumpFinishBodyAddressFirst(self) ==
    LET located == <<Call("build_fee_bump", self.txid)>>
        rated == located \o <<Call("fee_rate", self.fee_rate)>>
        script == AddressFromStr(self.allow_shrinking[1])
        shrunk == IF self.allow_shrinking # None
                  THEN rated \o <<Call("allow_shrinking", script[1])>>
                  ELSE rated
    IN  IF self.allow_shrinking # None /\ script = None
          THEN [calls |-> <<>>, end |-> "err", error |-> "Generic: address"]
        ELSE IF self.allow_shrinking # None /\ script[1] \notin OriginalOutputs
          THEN [calls |-> <<>>, end |-> "err", error |-> "Generic: not in transaction"]
        ELSE IF self.txid \notin TxidStrings
          THEN [calls |-> <<>>, end |-> "err", error |-> "Hex"]
        ELSE IF build_fee_bump(self.txid) # "ok"
          THEN [calls |-> located, end |-> "err", error |-> build_fee_bump(self.txid)]
        ELSE [calls |-> shrunk \o RbfCalls(self) \o <<Call("finish", <<>>)>>,
              end |-> "finish", error |-> "none"]

\* The body of BumpFeeTxBuilder::finish once the wallet lock is held: the
\* calls made on the wallet and on the session, and how the body ends:
\* "err" with the error a ? returned, or "finish" when the session was asked
\* to finish.
BumpFinishBody(self) ==
    LET located == <<Call("build_fee_bump", self.txid)>>
        rated == located \o <<Call("fee_rate", self.fee_rate)>>
        script == AddressFromStr(self.allow_shrinking[1])
        shrunk == IF self.allow_shrinking # None
                  THEN rated \o <<Call("allow_shrinking", script[1])>>
                  ELSE rated
    IN  IF self.txid \notin TxidStrings
          THEN [calls |-> <<>>, end |-> "err", error |-> "Hex"]
        ELSE IF build_fee_bump(self.txid) # "ok"
          THEN [calls |-> located, end |-> "err", error |-> build_fee_bump(self.txid)]
        ELSE IF self.allow_shrinking # None /\ script = None
          THEN [calls |-> rated, end |-> "err", error |-> "Generic: address"]
        ELSE IF self.allow_shrinking # None /\ script[1] \notin OriginalOutputs
          THEN [calls |-> shrunk, end |-> "err", error |-> "Generic: not in transaction"]
        ELSE [calls |-> shrunk \o RbfCalls(self) \o <<Call("finish", <<>>)>>,
              end |-> "finish", error |-> "none"]

BumpSetter(op, self, arg, value) ==
    /\ Len(bump_builders) < MaxBumpBuilders
    /\ bump_builders' = ArcNew(bump_builders, self, value)
    /\ bump_from' = Append(bump_from, [op |-> op, self |-> self, arg |-> arg])
    /\ bump_last' = [op |-> op, self |-> self, arg |-> arg, calls |-> <<>>,
                     result |-> "returned", error |-> "none"]
    /\ UNCHANGED <<txvars, keyvars, walletvars, descvars>>

BumpAllowShrinking ==
    \E i \in DOMAIN bump_builders, a \in AddressStrings :
        BumpSetter("allow_shrinking", i, <<a>>, allow_shrinking(bump_builders[i], a))

BumpEnableRbf ==
    \E i \in DOMAIN bump_builders :
        BumpSetter("enable_rbf", i, <<>>, enable_rbf(bump_builders[i]))

BumpEnableRbfWithSequence ==
    \E i \in DOMAIN bump_builders, n \in Sequences32 :
        BumpSetter("enable_rbf_with_sequence", i, <<n>>,
                   enable_rbf_with_sequence(bump_builders[i], n))

\* BumpFeeTxBuilder::finish(&self, wallet).  get_wallet panics on a poisoned
\* mutex; every failure of the body is returned with ?, and the outcome of
\* the session's own finish is the result of the call.
BumpFinish ==
    \E i \in DOMAIN bump_builders :
        LET body == BumpFinishBody(bump_builders[i]) IN
        /\ IF poisoned
             THEN bump_last' = [op |-> "finish", self |-> i, arg |-> <<>>, calls |-> <<>>,
                                result |-> "panic", error |-> "none"]
             ELSE \E r \in (IF body.end = "finish" THEN SessionFinish(body.calls)
                                  ELSE {"err"}) :
                    bump_last' = [op |-> "finish", self |-> i, arg |-> <<>>,
                                  calls |-> body.calls, result |-> r,
                                  error |-> IF body.end # "finish" THEN body.error
                                            ELSE IF r = "err" THEN "session" ELSE "none"]
        /\ UNCHANGED <<bump_builders, bump_from, txvars, keyvars, walletvars, descvars>>

\* A run starts from a builder that BumpFeeTxBuilder::new made, with a
\* wallet whose lock is sound or was poisoned by an aborted
\* TxBuilder::finish.
BumpInit ==
    /\ bump_builders \in {<<BumpFeeTxBuilderNew(t, r)>> : t \in BumpTxids, r \in FeeRates}
    /\ bump_from = <<[op |-> "new", self |-> 0, arg |-> <<>>]>>
    /\ bump_last = BumpIdle
    /\ poisoned \in BOOLEAN
    /\ builders = <<TxBuilderNew>>
    /\ bfrom = <<Given>>
    /\ last = TxIdle
    /\ keys = <<>>
    /\ kfrom = <<>>
    /\ klast = KeyIdle
    /\ WalletIdle
    /\ NoDescriptors

BumpNext ==
    \/ BumpAllowShrinking
    \/ BumpEnableRbf
    \/ BumpEnableRbfWithSequence
    \/ BumpFinish

BumpSpec == BumpInit /\ [][BumpNext]_vars

----------------------------------------------------------------------------
(* Descriptors.                                                            *)
(*                                                                         *)
(* A Descriptor is the extended descriptor, a script type around one       *)
(* public key, and the key map, which holds for a public key of the        *)
(* descriptor the secret key it was made from.  A descriptor string is     *)
(* its parts: the script type, the key origin in brackets (the             *)
(* fingerprint in hex and the path), the encoded key with the version      *)
(* that starts it (xprv, xpub for Network::Bitcoin, tprv, tpub for every   *)
(* other network; wif and hex for single keys), the trailing path and      *)
(* the wildcard.                                                           *)

Networks == {"Bitcoin", "Testnet", "Regtest"}

KeychainKinds == {"External", "Internal"}

\* The seeds whose master keys were made with Network::Bitcoin; every
\* other key of the model was made with a test network.
MainnetSeeds == {"seed-main"}

IsMainnet(xkey) == xkey.seed \in MainnetSeeds

\* The networks a key is valid for: an extended key and a secret single
\* key of Network::Bitcoin for Bitcoin alone, those of any other network
\* for every test network; a single public key for every network.
ValidNetworks(key) ==
    IF key.variant = "Single" /\ ~key.secret THEN Networks
    ELSE IF IsMainnet(key.xkey) THEN {"Bitcoin"}
    ELSE Networks \ {"Bitcoin"}

\* The version that starts the encoding of a key.
Version(key) ==
    IF key.variant = "XKey"
    THEN IF key.secret
         THEN (IF IsMainnet(key.xkey) THEN "xprv" ELSE "tprv")
         ELSE (IF IsMainnet(key.xkey) THEN "xpub" ELSE "tpub")
    ELSE IF key.secret THEN "wif" ELSE "hex"

\* A fingerprint in hex, and a string that is no fingerprint.
FingerprintHex(fingerprint) == [hex |-> TRUE, of |-> fingerprint]

NoFingerprint == [hex |-> FALSE, of |-> XKey("zz", <<>>)]

\* Fingerprint::from_str
FingerprintFromStr(string) == IF string.hex THEN Some(string.of) ELSE None

\* Display of a descriptor key inside a descriptor of the script type.
KeyString(script, key) ==
    [script |-> script,
     origin |-> IF key.origin # None
                THEN Some(<<FingerprintHex(key.origin[1][1]), key.origin[1][2]>>)
                ELSE None,
     version |-> Version(key),
     key |-> key.xkey,
     path |-> key.derivation_path,
     wildcard |-> key.wildcard]

ScriptTypes == {"pkh", "sh(wpkh)", "wpkh"}

\* A string that is no descriptor.
MalformedExpression ==
    [script |-> "wpkh(", origin |-> None, version |-> "hex", key |-> XKey("zz", <<>>),
     path |-> <<>>, wildcard |-> "None"]

\* The key that a key string of a descriptor stands for.
ParseKey(string) ==
    DescriptorKey(string.version \in {"xprv", "tprv", "wif"},
                  IF string.version \in {"wif", "hex"} THEN "Single" ELSE "XKey",
                  IF string.origin # None
                    THEN Some(<<string.origin[1][1].of, string.origin[1][2]>>)
                    ELSE None,
                  string.key, string.path, string.wildcard)

\* The descriptor of a script type around a key: a secret key is kept in
\* the key map, under the public key that stands for it in the descriptor.
DescriptorOf(script, key) ==
    IF key.secret
    THEN [script |-> script, key |-> as_public(key), key_map |-> {<<as_public(key), key>>}]
    ELSE [script |-> script, key |-> key, key_map |-> {}]

\* An into_wallet_descriptor that asks no key for its networks.
into_wallet_descriptor_unchecked(string, network) ==
    IF string.script \notin ScriptTypes
    THEN [ok |-> FALSE, descriptor |-> None, err |-> "Descriptor(Miniscript)"]
    ELSE [ok |-> TRUE, descriptor |-> Some(DescriptorOf(string.script, ParseKey(string))),
          err |-> "none"]

\* descriptor.into_wallet_descriptor(&secp, network) on a string: the
\* string is parsed, and every key of the descriptor has to be valid for
\* the network.
into_wallet_descriptor(string, network) ==
    IF string.script \notin ScriptTypes
    THEN [ok |-> FALSE, descriptor |-> None, err |-> "Descriptor(Miniscript)"]
    ELSE LET d == DescriptorOf(string.script, ParseKey(string))
         IN  IF network \in ValidNetworks(d.key)
             THEN [ok |-> TRUE, descriptor |-> Some(d), err |-> "none"]
             ELSE [ok |-> FALSE, descriptor |-> None, err |-> "Descriptor(Key(InvalidNetwork))"]

\* Descriptor::new
DescriptorNew(descriptor, network) == into_wallet_descriptor(descriptor, network)

\* The coin type of the templates: 0' for Network::Bitcoin, 1' otherwise.
CoinType(network) == IF network = "Bitcoin" THEN 0 ELSE 1

\* The account path of a template: purpose', coin type', 0'.
AccountPath(bip, network) ==
    <<Hardened(bip), Hardened(CoinType(network)), Hardened(0)>>

\* The step of the keychain: 0 for External, 1 for Internal.
KeychainStep(keychain_kind) ==
    IF keychain_kind = "External" THEN Normal(0) ELSE Normal(1)

\* The script type of a template.
TemplateScript(bip) ==
    CASE bip = 44 -> "pkh"
      [] bip = 49 -> "sh(wpkh)"
      [] bip = 84 -> "wpkh"

\* Bip44(xkey, keychain_kind).build(network), Bip49 and Bip84: the key is the
\* secret key xkey with the account path and the keychain step to walk.
TemplateSecret(bip, xkey, keychain_kind, network) ==
    DescriptorOf(TemplateScript(bip),
        DescriptorKey(TRUE, "XKey", None, xkey,
                      AccountPath(bip, network) \o <<KeychainStep(keychain_kind)>>,
                      "Unhardened"))

\* A public template that takes the coin type of Network::Bitcoin whatever
\* the network.
TemplatePublicCoinZero(bip, xkey, fingerprint, keychain_kind, network) ==
    DescriptorOf(TemplateScript(bip),
        DescriptorKey(FALSE, "XKey", Some(<<fingerprint, AccountPath(bip, "Bitcoin")>>), xkey,
                      <<KeychainStep(keychain_kind)>>, "Unhardened"))

\* Bip44Public(xkey, fingerprint, keychain_kind).build(network), Bip49Public
\* and Bip84Public: the key is the public key xkey, said to come from the
\* key of the fingerprint by the account path, with the keychain step to
\* walk.
TemplatePublic(bip, xkey, fingerprint, keychain_kind, network) ==
    DescriptorOf(TemplateScript(bip),
        DescriptorKey(FALSE, "XKey", Some(<<fingerprint, AccountPath(bip, network)>>), xkey,
                      <<KeychainStep(keychain_kind)>>, "Unhardened"))

Built(descriptor) == [ok |-> TRUE, descriptor |-> Some(descriptor), err |-> "none"]

Panicked == [ok |-> FALSE, descriptor |-> None, err |-> "panic"]

\* The secret templates: the Single arm is unreachable!(), a panic.
new_bip44(secret_key, keychain_kind, network) ==
    IF secret_key.variant = "XKey"
    THEN Built(TemplateSecret(44, secret_key.xkey, keychain_kind, network))
    ELSE Panicked

new_bip49(secret_key, keychain_kind, network) ==
    IF secret_key.variant = "XKey"
    THEN Built(TemplateSecret(49, secret_key.xkey, keychain_kind, network))
    ELSE Panicked

new_bip84(secret_key, keychain_kind, network) ==
    IF secret_key.variant = "XKey"
    THEN Built(TemplateSecret(84, secret_key.xkey, keychain_kind, network))
    ELSE Panicked

\* The public templates: Fingerprint::from_str(..).unwrap() comes first, and
\* the Single arm is unreachable!().
new_bip44_public(public_key, fingerprint, keychain_kind, network) ==
    IF FingerprintFromStr(fingerprint) # None /\ public_key.variant = "XKey"
    THEN Built(TemplatePublic(44, public_key.xkey, FingerprintFromStr(fingerprint)[1],
                              keychain_kind, network))
    ELSE Panicked

new_bip49_public(public_key, fingerprint, keychain_kind, network) ==
    IF FingerprintFromStr(fingerprint) # None /\ public_key.variant = "XKey"
    THEN Built(TemplatePublic(49, public_key.xkey, FingerprintFromStr(fingerprint)[1],
                              keychain_kind, network))
    ELSE Panicked

new_bip84_public(public_key, fingerprint, keychain_kind, network) ==
    IF FingerprintFromStr(fingerprint) # None /\ public_key.variant = "XKey"
    THEN Built(TemplatePublic(84, public_key.xkey, FingerprintFromStr(fingerprint)[1],
                              keychain_kind, network))
    ELSE Panicked

\* Descriptor::as_string
as_string(self) == KeyString(self.script, self.key)

\* Descriptor::as_string_private: to_string_with_secret prints, for a public
\* key that the key map holds, the secret key in its place.
as_string_private(self) ==
    IF \E pair \in self.key_map : pair[1] = self.key
    THEN KeyString(self.script, (CHOOSE pair \in self.key_map : pair[1] = self.key)[2])
    ELSE KeyString(self.script, self.key)

\* The database configurations given to Wallet::new: the memory database,
\* and a sled configuration whose path cannot be opened.
DatabaseConfigs == {"Memory", "Sled"}

\* AnyDatabase::from_config
DatabaseFromConfig(database_config) ==
    IF database_config = "Memory" THEN "ok" ELSE "Sled"

\* Wallet::new: the database is opened, the descriptors are printed with
\* their secrets, and BdkWallet::new reads the strings for the network, the
\* descriptor before the change descriptor.  The value is the error, or
\* "none" when a wallet was made.
WalletNew(descriptor, change_descriptor, network, database_config) ==
    LET main == into_wallet_descriptor(as_string_private(descriptor), network)
        change == into_wallet_descriptor(as_string_private(change_descriptor[1]), network)
    IN  IF DatabaseFromConfig(database_config) # "ok"
          THEN DatabaseFromConfig(database_config)
        ELSE IF ~main.ok THEN main.err
        ELSE IF change_descriptor # None /\ ~change.ok THEN change.err
        ELSE "none"

\* The model follows the descriptors up to the first call that panics.
DescRunning == dlast.err # "panic"

\* A constructor returned r: a descriptor, an error, or a panic.
DescriptorMade(op, arg, r) ==
    /\ DescRunning
    /\ r.ok => Len(descriptors) < MaxDescriptors
    /\ descriptors' = IF r.ok THEN Append(descriptors, r.descriptor[1]) ELSE descriptors
    /\ dfrom' = IF r.ok THEN Append(dfrom, [op |-> op, arg |-> arg]) ELSE dfrom
    /\ dlast' = [op |-> op, arg |-> arg, ok |-> r.ok, err |-> r.err]
    /\ UNCHANGED <<txvars, keyvars, walletvars, bumpvars>>

\* The fingerprint strings given to the public templates: of the first key
\* at hand, and a string that is no fingerprint.
FingerprintStrings == {FingerprintHex(Fingerprint(keys[1].xkey)), NoFingerprint}

\* The strings given to Descriptor::new: what as_string and
\* as_string_private print of wpkh descriptors of the keys at hand, and a
\* string that is no descriptor.
Expressions ==
    {KeyString("wpkh", keys[i]) : i \in DOMAIN keys} \cup {MalformedExpression}

\* The networks given to the templates: one of each coin type.
TemplateNetworks == {"Bitcoin", "Testnet"}

NewDescriptor ==
    \E e \in Expressions, n \in Networks :
        DescriptorMade("new", <<e, n>>, DescriptorNew(e, n))

NewBip44 ==
    \E i \in DOMAIN keys, k \in KeychainKinds, n \in TemplateNetworks :
        /\ keys[i].secret
        /\ DescriptorMade("new_bip44", <<i, k, n>>, new_bip44(keys[i], k, n))

NewBip49 ==
    \E i \in DOMAIN keys, k \in KeychainKinds, n \in TemplateNetworks :
        /\ keys[i].secret
        /\ DescriptorMade("new_bip49", <<i, k, n>>, new_bip49(keys[i], k, n))

NewBip84 ==
    \E i \in DOMAIN keys, k \in KeychainKinds, n \in TemplateNetworks :
        /\ keys[i].secret
        /\ DescriptorMade("new_bip84", <<i, k, n>>, new_bip84(keys[i], k, n))

NewBip44Public ==
    \E i \in DOMAIN keys, f \in FingerprintStrings, k \in KeychainKinds, n \in TemplateNetworks :
        /\ ~keys[i].secret
        /\ DescriptorMade("new_bip44_public", <<i, k, n, f>>,
                          new_bip44_public(keys[i], f, k, n))

NewBip49Public ==
    \E i \in DOMAIN keys, f \in FingerprintStrings, k \in KeychainKinds, n \in TemplateNetworks :
        /\ ~keys[i].secret
        /\ DescriptorMade("new_bip49_public", <<i, k, n, f>>,
                          new_bip49_public(keys[i], f, k, n))

NewBip84Public ==
    \E i \in DOMAIN keys, f \in FingerprintStrings, k \in KeychainKinds, n \in TemplateNetworks :
        /\ ~keys[i].secret
        /\ DescriptorMade("new_bip84_public", <<i, k, n, f>>,
                          new_bip84_public(keys[i], f, k, n))

DescriptorRead(op, arg, ok, err, out) ==
    /\ DescRunning
    /\ dlast' = [op |-> op, arg |-> arg, ok |-> ok, err |-> err, out |-> out]
    /\ UNCHANGED <<descriptors, dfrom, txvars, keyvars, walletvars, bumpvars>>

AsString ==
    \E i \in DOMAIN descriptors :
        DescriptorRead("as_string", <<i>>, TRUE, "none", as_string(descriptors[i]))

AsStringPrivate ==
    \E i \in DOMAIN descriptors :
        DescriptorRead("as_string_private", <<i>>, TRUE, "none",
                       as_string_private(descriptors[i]))

\* A wallet is made of a descriptor alone on either database, or of a
\* descriptor and another as its change descriptor on the memory database.
NewWallet ==
    \E i \in DOMAIN descriptors, n \in Networks, db \in DatabaseConfigs :
    \E c \in {None} \cup {Some(j) : j \in DOMAIN descriptors \ {i}} :
        LET e == WalletNew(descriptors[i],
                           IF c = None THEN None ELSE Some(descriptors[c[1]]), n, db)
        IN  /\ c # None => db = "Memory"
            /\ DescriptorRead("wallet_new", <<i, c, n, db>>, e = "none", e, None)

\* master.derive(account path).as_public()
AccountKey(master, bip, network) ==
    as_public(secret_derive(master, AccountPath(bip, network)).key[1])

\* The keys a run has at hand: a master key made for a test network with
\* the public key of one of its three accounts there, a master key made
\* for Network::Bitcoin with the public key of its BIP84 account, or a
\* single key with its public key.
KeyHeaps ==
    {<<DescriptorSecretKeyNew("seed1"),
       AccountKey(DescriptorSecretKeyNew("seed1"), bip, "Testnet")>> : bip \in {44, 49, 84}}
    \cup {<<DescriptorSecretKeyNew("seed-main"),
             AccountKey(DescriptorSecretKeyNew("seed-main"), 84, "Bitcoin")>>,
           <<SingleKey, as_public(SingleKey)>>}

DescInit ==
    /\ keys \in KeyHeaps
    /\ kfrom = [i \in DOMAIN keys |-> [op |-> "new", self |-> 0, path |-> <<>>]]
    /\ klast = KeyIdle
    /\ descriptors = <<>>
    /\ dfrom = <<>>
    /\ dlast = DescriptorIdle
    /\ builders = <<TxBuilderNew>>
    /\ bfrom = <<Given>>
    /\ last = TxIdle
    /\ poisoned = FALSE
    /\ WalletIdle
    /\ NoBumpBuilders

\* Descriptors are made and printed.
DescNext ==
    \/ NewDescriptor
    \/ NewBip44
    \/ NewBip49
    \/ NewBip84
    \/ NewBip44Public
    \/ NewBip49Public
    \/ NewBip84Public
    \/ AsString
    \/ AsStringPrivate

DescSpec == DescInit /\ [][DescNext]_vars

\* Descriptors are made and wallets are made of them.
DescWalletNext ==
    \/ NewDescriptor
    \/ NewBip44
    \/ NewBip49
    \/ NewBip84
    \/ NewBip44Public
    \/ NewBip49Public
    \/ NewBip84Public
    \/ NewWallet

DescWalletSpec == DescInit /\ [][DescWalletNext]_vars

----------------------------------------------------------------------------
(* Properties of the transaction builder.                                  *)

SetterOps ==
    {"add_recipient", "set_recipients", "add_unspendable", "unspendable", "add_utxo",
     "add_utxos", "manually_selected_only", "do_not_spend_change", "only_spend_change",
     "fee_rate", "fee_absolute", "drain_wallet", "drain_to", "enable_rbf",
     "enable_rbf_with_sequence", "add_data"}

\* A step in which a setter returned.
SetterStep == last'.op \in SetterOps /\ builders' # builders

\* C1: every setter returns a new builder and leaves every builder that
\* existed before the call, the one it was called on included, exactly as
\* it was; by induction a builder observed once is the same after any
\* sequence of setter calls.
C1_SettersLeaveReceiverUnchanged ==
    [][/\ \A i \in DOMAIN builders : i \in DOMAIN builders' /\ builders'[i] = builders[i]
       /\ last'.op \in SetterOps => Len(builders') = Len(builders) + 1]_vars

\* Two setters were called on the first builder, each returned a builder
\* that differs from it, and the first builder is still what it was made as.
C1_Witness ==
    /\ Len(builders) = 3
    /\ last.op \in SetterOps /\ last.self = 1
    /\ builders[1] = TxBuilderNew
    /\ builders[2] # builders[1]
    /\ builders[3] # builders[1]

\* C2 as stated: no builder reached from TxBuilder::new() by setters has
\* both fee specifications set.
C2_AtMostOneFeeSet ==
    builders[1] = TxBuilderNew =>
        \A i \in DOMAIN builders :
            ~(builders[i].fee_rate # None /\ builders[i].fee_absolute # None)

\* C2 amended: fee_rate is set or replaced only by the fee_rate setter and
\* fee_absolute only by the fee_absolute setter, each to its argument; no
\* setter clears or alters the other fee field, so a builder on which both
\* were called holds both.
C2_FeeFieldsIndependent ==
    [][SetterStep =>
        LET old == builders[last'.self]
            new == builders'[Len(builders')]
        IN  /\ new.fee_rate =
                 IF last'.op = "fee_rate" THEN Some(last'.arg[1]) ELSE old.fee_rate
            /\ new.fee_absolute =
                 IF last'.op = "fee_absolute" THEN Some(last'.arg[1]) ELSE old.fee_absolute]_vars

\* Starting from a new builder, fee_rate then fee_absolute were called and
\* the returned builder holds both.
C2_Witness ==
    /\ Len(builders) = 3
    /\ builders[1] = TxBuilderNew
    /\ builders[2].fee_rate # None /\ builders[2].fee_absolute = None
    /\ last.op = "fee_absolute" /\ last.self = 2
    /\ builders[3].fee_rate = builders[2].fee_rate
    /\ builders[3].fee_absolute # None

FeeCallIndexes(calls) == {i \in DOMAIN calls : calls[i].call \in {"fee_rate", "fee_absolute"}}

\* The fee policy in force after the calls: the session keeps the policy of
\* the last fee call made on it.
EffectiveFee(calls) ==
    LET idx == FeeCallIndexes(calls)
    IN  IF idx = {} THEN None
        ELSE Some(calls[CHOOSE i \in idx : \A j \in idx : j <= i])

\* C3: when the finished builder has both fee specifications set and the
\* session was asked to finish, the fee rate was applied before the
\* absolute fee and the policy in force is the builder's absolute fee.
C3_AbsoluteFeeWins ==
    (/\ last.op = "finish"
     /\ HasCall(last.calls, "finish")
     /\ builders[last.self].fee_rate # None
     /\ builders[last.self].fee_absolute # None)
    => /\ EffectiveFee(last.calls) # None
       /\ EffectiveFee(last.calls)[1].call = "fee_absolute"
       /\ EffectiveFee(last.calls)[1].arg = builders[last.self].fee_absolute[1]
       /\ \E i, j \in DOMAIN last.calls :
            /\ i < j
            /\ last.calls[i].call = "fee_rate"
            /\ last.calls[i].arg = builders[last.self].fee_rate[1]
            /\ last.calls[j].call = "fee_absolute"

\* fee_rate was called on a builder that holds an absolute fee, and finish on
\* the resulting builder produced a transaction, which pays the absolute fee.
C3_Witness ==
    /\ Len(builders) = 2
    /\ builders[1] = FullBuilder
    /\ bfrom[2].op = "fee_rate" /\ bfrom[2].self = 1
    /\ builders[2].fee_absolute = Some(220) /\ builders[2].fee_rate = Some(1)
    /\ last.op = "finish" /\ last.self = 2 /\ last.result = "ok"
    /\ last.tx # None /\ last.tx[1].fee = 220

\* The place of each session call in the order of the specification.
Rank(name) ==
    CASE name = "add_recipient" -> 1
      [] name = "change_policy" -> 2
      [] name = "add_utxos" -> 3
      [] name = "unspendable" -> 4
      [] name = "manually_selected_only" -> 5
      [] name = "fee_rate" -> 6
      [] name = "fee_absolute" -> 7
      [] name = "drain_wallet" -> 8
      [] name = "drain_to" -> 9
      [] name = "enable_rbf" -> 10
      [] name = "enable_rbf_with_sequence" -> 10
      [] name = "add_data" -> 11
      [] name = "finish" -> 12

\* Whether the builder's state asks for the session call `name`.
Wanted(b, name) ==
    CASE name = "add_recipient" -> b.recipients # <<>>
      [] name = "change_policy" -> TRUE
      [] name = "add_utxos" -> b.utxos # <<>>
      [] name = "unspendable" -> b.unspendable # {}
      [] name = "manually_selected_only" -> b.manually_selected_only
      [] name = "fee_rate" -> b.fee_rate # None
      [] name = "fee_absolute" -> b.fee_absolute # None
      [] name = "drain_wallet" -> b.drain_wallet
      [] name = "drain_to" -> b.drain_to # None
      [] name = "enable_rbf" -> b.rbf # None /\ b.rbf[1].kind = "Default"
      [] name = "enable_rbf_with_sequence" -> b.rbf # None /\ b.rbf[1].kind = "Value"
      [] name = "add_data" -> b.data # <<>>
      [] name = "finish" -> TRUE

SessionCalls ==
    {"add_recipient", "change_policy", "add_utxos", "unspendable", "manually_selected_only",
     "fee_rate", "fee_absolute", "drain_wallet", "drain_to", "enable_rbf",
     "enable_rbf_with_sequence", "add_data", "finish"}

\* C4: the calls finish makes on the session are in the order recipients
\* (in list order), change policy, forced UTXOs, unspendable UTXOs,
\* manual-only, fee rate, fee absolute, drain-wallet, drain-to, RBF, data,
\* each kind but the recipients at most once; the session is asked to
\* finish last, and only after a call for every constraint the builder holds.
C4_FinishAppliesInOrder ==
    last.op = "finish" =>
        LET calls == last.calls
            b == builders[last.self]
        IN  /\ \A i, j \in DOMAIN calls :
                 i < j => /\ Rank(calls[i].call) <= Rank(calls[j].call)
                          /\ Rank(calls[i].call) = Rank(calls[j].call)
                               => calls[i].call = "add_recipient"
            /\ \A i \in DOMAIN calls :
                 /\ calls[i].call \in SessionCalls
                 /\ Wanted(b, calls[i].call)
                 /\ calls[i].call = "add_recipient" => calls[i].arg = b.recipients[i]
            /\ HasCall(calls, "finish") =>
                 /\ calls[Len(calls)].call = "finish"
                 /\ \A name \in SessionCalls : Wanted(b, name) => HasCall(calls, name)
                 /\ Len(b.recipients) = Cardinality({i \in DOMAIN calls : calls[i].call = "add_recipient"})

\* finish on the builder whose setters were called in the reverse order made
\* all thirteen calls (two recipients among them) and produced a transaction.
C4_Witness ==
    /\ last.op = "finish" /\ last.result = "ok"
    /\ builders[last.self] = FullBuilder
    /\ Len(last.calls) = 13
    /\ last.calls[1].arg = <<"s1", 1000>> /\ last.calls[2].arg = <<"s2", 2000>>

----------------------------------------------------------------------------
(* Properties of the keys.                                                 *)

IsPrefix(p, q) == Len(p) <= Len(q) /\ SubSeq(q, 1, Len(p)) = p

\* keys[j] was produced from keys[i] by one or more derive and extend calls.
RECURSIVE ProducedFrom(_, _)
ProducedFrom(j, i) ==
    /\ kfrom[j].op \in {"derive", "extend"}
    /\ \/ kfrom[j].self = i
       \/ ProducedFrom(kfrom[j].self, i)

\* C5: a key with an origin hands its origin fingerprint to every key that
\* derive and extend calls produce from it, and its origin path is a prefix
\* of theirs.
C5_OriginFingerprintKept ==
    \A i \in DOMAIN keys, j \in DOMAIN keys :
        (ProducedFrom(j, i) /\ keys[i].origin # None)
        => /\ keys[j].origin # None
           /\ keys[j].origin[1][1] = keys[i].origin[1][1]
           /\ IsPrefix(keys[i].origin[1][2], keys[j].origin[1][2])

\* A master key was derived, which gave it an origin, and the derived key was
\* derived again along a non-empty path: the fingerprint is still the
\* master's and the origin path grew.
C5_Witness ==
    /\ Len(keys) = 3
    /\ keys[1] = DescriptorSecretKeyNew("seed1")
    /\ kfrom[2].op = "derive" /\ kfrom[2].self = 1
    /\ kfrom[3].op = "derive" /\ kfrom[3].self = 2 /\ kfrom[3].path # <<>>
    /\ keys[3].origin[1][1] = Fingerprint(keys[1].xkey)
    /\ keys[3].xkey # keys[1].xkey
    /\ Len(keys[3].origin[1][2]) > Len(keys[2].origin[1][2])

\* C6: the key a successful derive(path) on K returned has an origin, with
\* K's own fingerprint when K had none and K's origin fingerprint otherwise,
\* and K's origin path (empty if none) followed by path; its trailing path
\* is empty and its wildcard is K's.
C6_DeriveSetsOrigin ==
    \A j \in DOMAIN keys :
        kfrom[j].op = "derive" =>
            LET K == keys[kfrom[j].self]
                path == kfrom[j].path
            IN  /\ K.variant = "XKey"
                /\ keys[j].variant = "XKey"
                /\ keys[j].secret = K.secret
                /\ keys[j].origin # None
                /\ keys[j].origin[1][1] =
                     IF K.origin = None THEN Fingerprint(K.xkey) ELSE K.origin[1][1]
                /\ keys[j].origin[1][2] =
                     (IF K.origin = None THEN <<>> ELSE K.origin[1][2]) \o path
                /\ keys[j].derivation_path = <<>>
                /\ keys[j].wildcard = K.wildcard

\* derive("m") on the master key, which has no origin, returned a key whose
\* origin is the master's fingerprint with the empty path.
C6_Witness ==
    /\ Len(keys) >= 2
    /\ keys[1] = DescriptorSecretKeyNew("seed1") /\ keys[1].origin = None
    /\ kfrom[2].op = "derive" /\ kfrom[2].self = 1 /\ kfrom[2].path = <<>>
    /\ keys[2].origin = Some(<<Fingerprint(keys[1].xkey), <<>>>>)
    /\ keys[2].wildcard = "Unhardened"

NotDerivable == {"Cannot derive from a single key", "Cannot extend from a single key"}

\* C7: derive and extend on a Single key, secret or public, fail with the
\* not-derivable error for every path, return no key and leave every key,
\* the receiver included, as it was.
C7_SingleKeyNotDerivable ==
    [][(klast'.op \in {"derive", "extend"} /\ keys[klast'.self].variant = "Single")
       => /\ ~klast'.ok
          /\ klast'.err \in NotDerivable
          /\ keys' = keys]_vars

\* extend was called on the public key of a single secret key and failed.
C7_Witness ==
    /\ Len(keys) = 2
    /\ keys[1] = SingleKey
    /\ kfrom[2].op = "as_public" /\ keys[2].variant = "Single" /\ ~keys[2].secret
    /\ klast.op = "extend" /\ klast.self = 2 /\ klast.path # <<>>
    /\ ~klast.ok /\ klast.err = "Cannot extend from a single key"

\* C8: the key a successful extend(path) returned has the original's
\* trailing path followed by path and the original's key, chain code,
\* origin and wildcard; the original is unchanged.
C8_ExtendAppendsTrailingPath ==
    [][(klast'.op = "extend" /\ klast'.ok /\ keys' # keys)
       => LET K == keys[klast'.self]
              R == keys'[Len(keys')]
          IN  /\ Len(keys') = Len(keys) + 1
              /\ R.derivation_path = K.derivation_path \o klast'.path
              /\ R.xkey = K.xkey
              /\ R.origin = K.origin
              /\ R.wildcard = K.wildcard
              /\ R.secret = K.secret /\ R.variant = K.variant
              /\ \A i \in DOMAIN keys : keys'[i] = keys[i]]_vars

\* extend was called with a non-empty path on a key that already had an
\* origin and a trailing path.
C8_Witness ==
    /\ Len(keys) = 2
    /\ keys[1] = ImportedKey
    /\ klast.op = "extend" /\ klast.ok /\ klast.self = 1
    /\ klast.path = <<Hardened(1), Normal(0)>>
    /\ keys[2].derivation_path = <<Normal(1), Hardened(1), Normal(0)>>
    /\ keys[2].origin = ImportedKey.origin

\* C9: extending by P1 and then by P2 gives the key that extending once by
\* P1 followed by P2 gives.
C9_ExtendTwiceIsExtendOnce ==
    \A j \in DOMAIN keys :
        kfrom[j].op = "extend" =>
            LET K == keys[kfrom[j].self]
                P1 == kfrom[j].path
            IN  /\ \A P2 \in Paths :
                     /\ Extend(keys[j], P2).ok
                     /\ Extend(keys[j], P2) = Extend(K, ExtendPath(P1, P2))
                /\ \A l \in DOMAIN keys :
                     (kfrom[l].op = "extend" /\ kfrom[l].self = j)
                     => keys[l] = Extend(K, ExtendPath(P1, kfrom[l].path)).key[1]

\* The master key was extended by two different non-empty paths in turn.
C9_Witness ==
    /\ Len(keys) = 3
    /\ keys[1] = DescriptorSecretKeyNew("seed1")
    /\ kfrom[2].op = "extend" /\ kfrom[2].self = 1 /\ kfrom[2].path = <<Normal(0)>>
    /\ kfrom[3].op = "extend" /\ kfrom[3].self = 2 /\ kfrom[3].path = <<Hardened(1), Normal(0)>>
    /\ keys[3].derivation_path = <<Normal(0), Hardened(1), Normal(0)>>

\* C10 as stated: for every derivable secret key K and every path P of
\* normal steps, the public key of derive(K, P) is derive(K.as_public(), P).
C10_DeriveCommutesWithAsPublic ==
    \A i \in DOMAIN keys :
        (keys[i].secret /\ keys[i].variant = "XKey")
        => \A P \in Paths :
             IsNormalPath(P)
             => /\ public_derive(as_public(keys[i]), P).ok
                /\ as_public(secret_derive(keys[i], P).key[1])
                     = public_derive(as_public(keys[i]), P).key[1]

\* C11: derive on a Derivable public key with a path that has a hardened
\* step fails, returns no key and leaves the keys as they were, and the
\* error is an error return that is not the not-derivable error of a Single
\* key.
C11_HardenedPublicDeriveFails ==
    [][(/\ klast'.op = "derive"
        /\ ~keys[klast'.self].secret
        /\ keys[klast'.self].variant = "XKey"
        /\ ~IsNormalPath(klast'.path))
       => /\ ~klast'.ok
          /\ klast'.err \notin NotDerivable \cup {"none", "panic"}
          /\ keys' = keys]_vars

\* The public key of the master key was derived along "m/0/1h", a path
\* whose last step is hardened, and the call failed with the BIP32 error.
C11_Witness ==
    /\ Len(keys) = 2
    /\ keys[1] = DescriptorSecretKeyNew("seed1")
    /\ kfrom[2].op = "as_public" /\ keys[2].variant = "XKey" /\ ~keys[2].secret
    /\ klast.op = "derive" /\ klast.self = 2
    /\ klast.path = <<Normal(0), Hardened(1)>>
    /\ ~klast.ok
    /\ klast.err = "Bip32: cannot derive hardened key from public key"

\* C12 as stated: secret_bytes returns, without aborting, on every secret
\* key that new, from_string, derive and extend produce, Single or Derivable.
C12_SecretBytesNeverAborts ==
    klast.op = "secret_bytes" => klast.ok /\ klast.err = "none"

----------------------------------------------------------------------------
(* Properties of the transaction builder, continued.                       *)

\* C13 as stated: finish on a builder reached from TxBuilder::new() through
\* the setters returns a transaction or an error; it never aborts.
C13_FinishNeverAborts ==
    (builders[1] = TxBuilderNew /\ last.op = "finish") => last.result \in {"ok", "err"}

\* The positions of a call at which the thread holds the wallet guard, and
\* those among them at which it is yet to call into the wallet state.
GuardHeld == {"wallet", "session", "drop_psbt", "drop_blockchain", "drop"}

InWallet(t) == pc[t].at \in {"wallet", "session"}

\* C14: a thread that is in the wallet state, or has been and still has its
\* guard (for a finish: from the making of the session to the result), holds
\* the wallet lock; the lock is held by such a thread only; so no two threads
\* are in the wallet state at once, whatever operations they are in.
C14_WalletAccessUnderLock ==
    /\ \A t \in Threads : pc[t].at \in GuardHeld => wallet_holder = t
    /\ wallet_holder # 0 => pc[wallet_holder].at \in GuardHeld
    /\ \A t1 \in Threads, t2 \in Threads :
         (t1 # t2 /\ InWallet(t1)) => ~InWallet(t2)
    /\ \A t1 \in Threads, t2 \in Threads :
         (t1 # t2 /\ pc[t1].op = "sync" /\ InWallet(t1))
         => ~(pc[t2].op \in {"sync", "sign", "finish", "bump_finish"}
              /\ pc[t2].at \in GuardHeld)

\* One thread is syncing, inside the wallet state, while the other, in
\* finish, waits in get_wallet for the lock.
C14_Witness ==
    /\ pc[1].op = "sync" /\ pc[1].at = "wallet"
    /\ wallet_holder = 1
    /\ pc[2].op = "finish" /\ pc[2].at = "lock"

\* The setter calls that led from the first builder to builders[j], oldest
\* first.
RECURSIVE History(_)
History(j) ==
    IF bfrom[j].op = "given" THEN <<>>
    ELSE Append(History(bfrom[j].self), bfrom[j])

\* The builder the call that returned builders[j] was made on.
Parent(j) == builders[bfrom[j].self]

Made == {j \in DOMAIN builders : bfrom[j].op # "given"}

LastIndex(h, ops) ==
    LET idx == {i \in DOMAIN h : h[i].op \in ops}
    IN  IF idx = {} THEN 0 ELSE CHOOSE i \in idx : \A k \in idx : k <= i

Pairs(recipients) ==
    [i \in 1..Len(recipients) |-> <<recipients[i].script, recipients[i].amount>>]

\* C15: a builder's recipient list is the list of the most recent
\* set_recipients call (that of the first builder if there was none, which
\* is empty for a new builder) followed by the pair of every add_recipient
\* call made after it, in call order, duplicates kept.
C15_RecipientsAreLastSetThenAdds ==
    /\ TxBuilderNew.recipients = <<>>
    /\ \A j \in DOMAIN builders :
         LET h == History(j)
             k == LastIndex(h, {"set_recipients"})
             base == IF k = 0 THEN builders[1].recipients ELSE Pairs(h[k].arg[1])
             adds == SelectSeq(SubSeq(h, k + 1, Len(h)), LAMBDA c : c.op = "add_recipient")
         IN  builders[j].recipients = base \o [i \in 1..Len(adds) |-> adds[i].arg]

\* set_recipients replaced a list of two recipients by a list of two, and
\* add_recipient then added a pair that the list already held.
C15_Witness ==
    /\ Len(builders) = 3
    /\ Len(builders[1].recipients) = 2
    /\ bfrom[2].op = "set_recipients" /\ bfrom[2].self = 1
    /\ bfrom[3].op = "add_recipient" /\ bfrom[3].self = 2
    /\ builders[2].recipients = <<<<"s2", 2000>>, <<"s1", 1000>>>>
    /\ builders[3].recipients = <<<<"s2", 2000>>, <<"s1", 1000>>, <<"s2", 2000>>>>

C17_UnspendableIsASet ==
    \A j \in Made :
        /\ bfrom[j].op = "add_unspendable" =>
              /\ builders[j].unspendable = Parent(j).unspendable \cup {bfrom[j].arg[1]}
              /\ bfrom[j].arg[1] \in Parent(j).unspendable => builders[j] = Parent(j)
        /\ bfrom[j].op = "unspendable" =>
              builders[j].unspendable =
                  {bfrom[j].arg[1][i] : i \in DOMAIN bfrom[j].arg[1]}
        /\ bfrom[j].op \notin {"add_unspendable", "unspendable"} =>
              builders[j].unspendable = Parent(j).unspendable

\* add_unspendable added an outpoint the set already held, and unspendable
\* then replaced the set by a list that names another outpoint twice.
C17_Witness ==
    /\ Len(builders) = 3
    /\ builders[1].unspendable = {OutPointUnknown}
    /\ bfrom[2].op = "add_unspendable" /\ bfrom[2].self = 1
    /\ bfrom[2].arg = <<OutPointUnknown>>
    /\ builders[2] = builders[1]
    /\ bfrom[3].op = "unspendable" /\ bfrom[3].self = 2
    /\ bfrom[3].arg = <<<<OutPointHeld, OutPointHeld>>>>
    /\ builders[3].unspendable = {OutPointHeld}

PolicyOf(op) ==
    IF op = "do_not_spend_change" THEN "ChangeForbidden" ELSE "OnlyChange"

\* C18: the change-spend policy of every builder is one of allow, forbid and
\* only-change; it is allow on a new builder, and otherwise the policy of the
\* most recent do_not_spend_change or only_spend_change call (that of the
\* first builder if there was none).
C18_ChangePolicyIsLastSet ==
    /\ TxBuilderNew.change_policy = "ChangeAllowed"
    /\ \A j \in DOMAIN builders :
         LET h == History(j)
             k == LastIndex(h, {"do_not_spend_change", "only_spend_change"})
         IN  /\ builders[j].change_policy \in {"ChangeAllowed", "ChangeForbidden", "OnlyChange"}
             /\ builders[j].change_policy =
                  IF k = 0 THEN builders[1].change_policy ELSE PolicyOf(h[k].op)

\* do_not_spend_change and then only_spend_change were called, starting from
\* a new builder.
C18_Witness ==
    /\ Len(builders) = 3
    /\ builders[1] = TxBuilderNew
    /\ bfrom[2].op = "do_not_spend_change" /\ bfrom[2].self = 1
    /\ bfrom[3].op = "only_spend_change" /\ bfrom[3].self = 2
    /\ builders[2].change_policy = "ChangeForbidden"
    /\ builders[3].change_policy = "OnlyChange"

\* The highest sequence number that signals RBF, 0xFFFFFFFD.
MaxRbfSequence == U32(65535, 65533)

\* C19: enable_rbf_with_sequence stores the value it is given, whichever it
\* is, and enable_rbf stores the default; no other setter touches the RBF
\* field.  finish on a builder whose RBF value exceeds 0xFFFFFFFD produces
\* no transaction, and returns an error whenever it hands the value to the
\* session and asks it to finish; on a builder holding the default it asks
\* the session for default signaling.
C19_RbfSequenceCheckedAtFinish ==
    /\ \A j \in Made :
         builders[j].rbf =
             IF bfrom[j].op = "enable_rbf_with_sequence" THEN Some(RbfValue(bfrom[j].arg[1]))
             ELSE IF bfrom[j].op = "enable_rbf" THEN Some(RbfDefault)
             ELSE Parent(j).rbf
    /\ last.op \in {"enable_rbf", "enable_rbf_with_sequence"} => last.result = "returned"
    /\ last.op = "finish" =>
         LET b == builders[last.self] IN
         /\ (b.rbf # None /\ b.rbf[1].kind = "Value" /\ U32Less(MaxRbfSequence, b.rbf[1].n))
              => /\ last.result # "ok"
                 /\ HasCall(last.calls, "finish") =>
                      /\ last.result = "err"
                      /\ \E i \in DOMAIN last.calls :
                           /\ last.calls[i].call = "enable_rbf_with_sequence"
                           /\ last.calls[i].arg = b.rbf[1].n
         /\ (b.rbf = Some(RbfDefault) /\ HasCall(last.calls, "finish"))
              => /\ HasCall(last.calls, "enable_rbf")
                 /\ ~HasCall(last.calls, "enable_rbf_with_sequence")

\* enable_rbf and then enable_rbf_with_sequence(0xFFFFFFFE) were called,
\* and finish on the result asked the session to finish and got an error.
C19_Witness ==
    /\ Len(builders) = 3
    /\ builders[1] = TxBuilderNew
    /\ bfrom[2].op = "enable_rbf" /\ bfrom[2].self = 1
    /\ bfrom[3].op = "enable_rbf_with_sequence" /\ bfrom[3].self = 2
    /\ bfrom[3].arg = <<U32(65535, 65534)>>
    /\ last.op = "finish" /\ last.self = 3
    /\ HasCall(last.calls, "finish")
    /\ last.result = "err"

----------------------------------------------------------------------------
(* Properties of the keys, continued.                                      *)

\* C27: derive ignores the pending trailing path of its receiver: for the
\* key extend(P1) returned from K and every path P2, derive(P2) gives what
\* derive(P2) gives on K (the same child key, origin and empty trailing
\* path, or the same error), so no step of P1 is in the child key or in its
\* origin.
C27_DeriveIgnoresTrailingPath ==
    \A j \in DOMAIN keys :
        kfrom[j].op = "extend" =>
            LET K == keys[kfrom[j].self] IN
            /\ \A P2 \in Paths :
                 /\ Derive(keys[j], P2) = Derive(K, P2)
                 /\ Derive(keys[j], P2).ok =>
                      Derive(keys[j], P2).key[1].derivation_path = <<>>
            /\ \A l \in DOMAIN keys :
                 (kfrom[l].op = "derive" /\ kfrom[l].self = j)
                 => /\ keys[l] = Derive(K, kfrom[l].path).key[1]
                    /\ keys[l].xkey = DeriveChild(K.xkey, kfrom[l].path)

\* The master key was extended by "m/0" and the result derived along "m/1h":
\* the child is the master's child at 1h, with origin path 1h.
C27_Witness ==
    /\ Len(keys) = 3
    /\ keys[1] = DescriptorSecretKeyNew("seed1")
    /\ kfrom[2].op = "extend" /\ kfrom[2].self = 1 /\ kfrom[2].path = <<Normal(0)>>
    /\ keys[2].derivation_path = <<Normal(0)>>
    /\ kfrom[3].op = "derive" /\ kfrom[3].self = 2 /\ kfrom[3].path = <<Hardened(1)>>
    /\ keys[3].xkey = XKey("seed1", <<Hardened(1)>>)
    /\ keys[3].origin = Some(<<Fingerprint(keys[1].xkey), <<Hardened(1)>>>>)
    /\ keys[3].derivation_path = <<>>

\* C28: derivation composes: for the key derive(P1) returned from K and
\* every path P2, derive(P2) on it gives what derive(P1 followed by P2)
\* gives on K: the same child key, origin fingerprint, origin path, trailing
\* path and wildcard (for a public key, whenever no step is hardened; the
\* same error otherwise).
C28_DeriveComposes ==
    \A j \in DOMAIN keys :
        kfrom[j].op = "derive" =>
            LET K == keys[kfrom[j].self]
                P1 == kfrom[j].path
            IN  /\ \A P2 \in Paths :
                     /\ Derive(keys[j], P2) = Derive(K, P1 \o P2)
                     /\ (K.secret \/ IsNormalPath(P2)) => Derive(keys[j], P2).ok
                /\ \A l \in DOMAIN keys :
                     (kfrom[l].op = "derive" /\ kfrom[l].self = j)
                     => keys[l] = Derive(K, P1 \o kfrom[l].path).key[1]

\* An imported key with an origin and a trailing path was derived along
\* "m/1h" and the result along "m/0/1": the origin path grew by both.
C28_Witness ==
    /\ Len(keys) = 3
    /\ keys[1] = ImportedKey
    /\ kfrom[2].op = "derive" /\ kfrom[2].self = 1 /\ kfrom[2].path = <<Hardened(1)>>
    /\ kfrom[3].op = "derive" /\ kfrom[3].self = 2
    /\ kfrom[3].path = <<Normal(0), Normal(1)>>
    /\ keys[3].xkey = XKey("seed2", <<Hardened(1), Normal(0), Normal(1)>>)
    /\ keys[3].origin =
         Some(<<ImportedFingerprint, <<Hardened(1), Hardened(1), Normal(0), Normal(1)>>>>)
    /\ keys[3].wildcard = "None"

----------------------------------------------------------------------------
(* Properties of the transaction builder, continued.                       *)

\* builders[j] was reached from builders[i] by one or more setter calls.
RECURSIVE Ancestor(_, _)
Ancestor(i, j) ==
    /\ bfrom[j].op # "given"
    /\ \/ bfrom[j].self = i
       \/ Ancestor(i, bfrom[j].self)

\* C29: the options of a builder are one-way along any sequence of
\* setters: manually_selected_only and drain_wallet stay true once true;
\* fee_rate, fee_absolute, drain_to and rbf stay set once set, and change
\* only in a call of their own setter; a change policy that is not allow
\* never is allow again.
C29_OptionsAreOneWay ==
    /\ \A i \in DOMAIN builders, j \in DOMAIN builders :
         Ancestor(i, j) =>
            LET a == builders[i]
                b == builders[j]
            IN  /\ a.manually_selected_only => b.manually_selected_only
                /\ a.drain_wallet => b.drain_wallet
                /\ a.fee_rate # None => b.fee_rate # None
                /\ a.fee_absolute # None => b.fee_absolute # None
                /\ a.drain_to # None => b.drain_to # None
                /\ a.rbf # None => b.rbf # None
                /\ a.change_policy # "ChangeAllowed" => b.change_policy # "ChangeAllowed"
    /\ \A j \in Made :
         /\ builders[j].fee_rate # Parent(j).fee_rate => bfrom[j].op = "fee_rate"
         /\ builders[j].fee_absolute # Parent(j).fee_absolute => bfrom[j].op = "fee_absolute"
         /\ builders[j].drain_to # Parent(j).drain_to => bfrom[j].op = "drain_to"
         /\ builders[j].rbf # Parent(j).rbf
              => bfrom[j].op \in {"enable_rbf", "enable_rbf_with_sequence"}

\* On a builder with every option set, do_not_spend_change moved the change
\* policy from only-change to forbid and fee_rate then replaced the fee
\* rate: every option is still set.
C29_Witness ==
    /\ Len(builders) = 3
    /\ builders[1] = FullBuilder
    /\ bfrom[2].op = "do_not_spend_change" /\ bfrom[2].self = 1
    /\ bfrom[3].op = "fee_rate" /\ bfrom[3].self = 2 /\ bfrom[3].arg = <<1>>
    /\ builders[3].change_policy = "ChangeForbidden"
    /\ builders[3].fee_rate = Some(1) /\ builders[1].fee_rate = Some(2)
    /\ builders[3].fee_absolute = Some(220)
    /\ builders[3].manually_selected_only /\ builders[3].drain_wallet
    /\ builders[3].drain_to # None /\ builders[3].rbf # None

\* C30: add_data returns the receiver with its argument as the data
\* payload, whatever payload the receiver held, and no other setter touches
\* the payload; a finish that compiles the whole request hands the payload
\* to the session, in one add_data call, exactly when it is not empty.
C30_AddDataReplaces ==
    /\ \A j \in Made :
         /\ bfrom[j].op = "add_data" =>
               builders[j] = [Parent(j) EXCEPT !.data = bfrom[j].arg[1]]
         /\ bfrom[j].op # "add_data" => builders[j].data = Parent(j).data
    /\ (last.op = "finish" /\ HasCall(last.calls, "finish")) =>
         LET b == builders[last.self]
             idx == {i \in DOMAIN last.calls : last.calls[i].call = "add_data"}
         IN  /\ b.data = <<>> => idx = {}
             /\ b.data # <<>> => /\ Cardinality(idx) = 1
                                 /\ \A i \in idx : last.calls[i].arg = b.data

\* A builder holding a payload was given another one and then the empty
\* one, and finish on the result compiled a request without data.
C30_Witness ==
    /\ Len(builders) = 3
    /\ builders[1] = FullBuilder /\ builders[1].data = <<1>>
    /\ bfrom[2].op = "add_data" /\ bfrom[2].self = 1 /\ bfrom[2].arg = <<<<1, 2>>>>
    /\ builders[2].data = <<1, 2>>
    /\ bfrom[3].op = "add_data" /\ bfrom[3].self = 2 /\ bfrom[3].arg = <<<<>>>>
    /\ builders[3].data = <<>>
    /\ last.op = "finish" /\ last.self = 3
    /\ HasCall(last.calls, "finish") /\ ~HasCall(last.calls, "add_data")

----------------------------------------------------------------------------
(* Properties of the threads calling into one Wallet.                      *)

\* C25 as stated: when a TxBuilder::finish or BumpFeeTxBuilder::finish has
\* ended, however it ended, the thread no longer holds the wallet lock and
\* the lock can still be acquired: get_wallet does not fail on it.
C25_FinishLeavesWalletUsable ==
    \A t \in Threads :
        (/\ pc[t].op \in {"finish", "bump_finish"}
         /\ pc[t].at = "idle"
         /\ pc[t].result # "none")
        => /\ wallet_holder # t
           /\ ~poisoned

\* The locks thread t holds.
Held(t) ==
    (IF wallet_holder = t THEN {"wallet"} ELSE {})
    \cup (IF psbt_holder = t THEN {"psbt"} ELSE {})
    \cup (IF blockchain_holder = t THEN {"blockchain"} ELSE {})

----------------------------------------------------------------------------
(* Properties of the fee-bump builder.                                     *)

AddressErrors == {"Generic: address", "Generic: not in transaction"}

\* The address the builder holds is no address, or its script is paid by no
\* output of the original transaction.
BadShrinkAddress(b) ==
    /\ b.allow_shrinking # None
    /\ \/ AddressFromStr(b.allow_shrinking[1]) = None
       \/ AddressFromStr(b.allow_shrinking[1])[1] \notin OriginalOutputs

----------------------------------------------------------------------------
(* Properties of the transaction that finish produces.                     *)

\* The builder asks for every output of the wallet to be paid to a script
\* and names no recipient.
DrainRequested(b) == b.drain_wallet /\ b.drain_to # None /\ b.recipients = <<>>

\* The builder keeps none of the wallet's outputs from being spent.
NothingWithheld(b) ==
    /\ b.unspendable \cap WalletUtxos = {}
    /\ b.change_policy = "ChangeAllowed"
    /\ ~b.manually_selected_only

\* The sequence number the builder asks for, if any, signals RBF.
RbfSignalled(b) ==
    b.rbf # None => (b.rbf[1].kind = "Default" \/ is_rbf(b.rbf[1].n))

\* The transaction spends every output of the wallet and has one output,
\* which pays the builder's drain script the value of the inputs less the
\* fee; the fee is the builder's rate, or the default rate, times the
\* virtual size: 220 at rate 2 and 110 by default with a single input.
DrainsTo(tx, b) ==
    LET rate == IF b.fee_rate # None THEN b.fee_rate[1] ELSE DefaultFeeRate IN
    /\ \A o \in WalletUtxos : \E i \in DOMAIN tx.inputs : tx.inputs[i] = o
    /\ Len(tx.outputs) = 1
    /\ tx.outputs[1].script = b.drain_to[1]
    /\ tx.outputs[1].data = <<>>
    /\ tx.outputs[1].value = Len(tx.inputs) * FundedValue - tx.fee
    /\ tx.fee = rate * VBytes(Len(tx.inputs), 1, <<>>)
    /\ (Len(tx.inputs) = 1 /\ b.fee_rate = Some(2)) => tx.fee = 220
    /\ (Len(tx.inputs) = 1 /\ b.fee_rate = None) => tx.fee = 110

----------------------------------------------------------------------------
(* Properties of the descriptors.                                          *)

SecretTemplates == {"new_bip44", "new_bip49", "new_bip84"}

PublicTemplates == {"new_bip44_public", "new_bip49_public", "new_bip84_public"}

\* The purpose number of the template a constructor stands for.
BipOf(op) ==
    CASE op \in {"new_bip44", "new_bip44_public"} -> 44
      [] op \in {"new_bip49", "new_bip49_public"} -> 49
      [] op \in {"new_bip84", "new_bip84_public"} -> 84

\* Descriptor j was built by the public template of descriptor i's secret
\* template, for the same keychain and network, from the public key derived
\* from i's key at the template's account path and from the fingerprint of
\* i's key.
PublicTwin(i, j) ==
    /\ dfrom[i].op \in SecretTemplates
    /\ dfrom[j].op \in PublicTemplates
    /\ BipOf(dfrom[i].op) = BipOf(dfrom[j].op)
    /\ dfrom[i].arg[2] = dfrom[j].arg[2]
    /\ dfrom[i].arg[3] = dfrom[j].arg[3]
    /\ keys[dfrom[j].arg[1]]
         = AccountKey(keys[dfrom[i].arg[1]], BipOf(dfrom[i].op), dfrom[i].arg[3])
    /\ dfrom[j].arg[4] = FingerprintHex(Fingerprint(keys[dfrom[i].arg[1]].xkey))

BuiltFor(j) == IF dfrom[j].op = "new" THEN dfrom[j].arg[2] ELSE dfrom[j].arg[3]

\* The version of an encoded extended key is that of the network: xprv and
\* xpub for Bitcoin, tprv and tpub for every other network.
VersionAdmits(version, network) ==
    (version \in {"xprv", "xpub"}) <=> (network = "Bitcoin")

InvalidNetwork == "Descriptor(Key(InvalidNetwork))"

\* C22 as stated: Descriptor::new fails with InvalidNetwork when the
\* expression embeds an extended key of another network than the network
\* argument (read as: of a version that is not the network's), and
\* Wallet::new (on a database that opens) fails with InvalidNetwork when its
\* descriptor, of an extended key, was built for another network than its
\* network argument.
C22_OtherNetworkFails ==
    /\ (/\ dlast.op = "new"
        /\ dlast.arg[1].script \in ScriptTypes
        /\ dlast.arg[1].version \in {"xprv", "tprv", "xpub", "tpub"}
        /\ ~VersionAdmits(dlast.arg[1].version, dlast.arg[2]))
       => (~dlast.ok /\ dlast.err = InvalidNetwork)
    /\ (/\ dlast.op = "wallet_new"
        /\ dlast.arg[4] = "Memory"
        /\ descriptors[dlast.arg[1]].key.variant = "XKey"
        /\ BuiltFor(dlast.arg[1]) # dlast.arg[3])
       => (~dlast.ok /\ dlast.err = InvalidNetwork)

\* The key of a descriptor is valid for the network: an extended key made
\* for Bitcoin on Bitcoin alone, one made for another network on every
\* network but Bitcoin, a single key everywhere.
KeyAdmits(key, network) ==
    key.variant = "Single" \/ ((key.xkey.seed \in MainnetSeeds) <=> (network = "Bitcoin"))

\* C22: Descriptor::new of an expression that parses, with an extended key,
\* succeeds when the key's version is that of the network argument (xprv,
\* xpub on Bitcoin; tprv, tpub on Testnet and Regtest alike) and fails with
\* InvalidNetwork, making no descriptor, otherwise.  Wallet::new fails with
\* the error of the database when that does not open; otherwise it fails
\* with InvalidNetwork, making no wallet, when a key of its descriptor or of
\* its change descriptor is not valid for the network argument, and
\* succeeds when all are, whatever network the descriptors were built for.
C22_KeyNetworkDecides ==
    /\ (/\ dlast.op = "new"
        /\ dlast.arg[1].script \in ScriptTypes
        /\ dlast.arg[1].version \in {"xprv", "tprv", "xpub", "tpub"})
       => /\ dlast.ok <=> VersionAdmits(dlast.arg[1].version, dlast.arg[2])
          /\ ~dlast.ok => dlast.err = InvalidNetwork
    /\ \A j \in DOMAIN descriptors :
         dfrom[j].op = "new" => KeyAdmits(descriptors[j].key, dfrom[j].arg[2])
    /\ dlast.op = "wallet_new" =>
         LET admitted ==
               /\ KeyAdmits(descriptors[dlast.arg[1]].key, dlast.arg[3])
               /\ dlast.arg[2] # None
                    => KeyAdmits(descriptors[dlast.arg[2][1]].key, dlast.arg[3])
         IN  IF dlast.arg[4] # "Memory"
             THEN ~dlast.ok /\ dlast.err = "Sled"
             ELSE /\ dlast.ok <=> admitted
                  /\ ~dlast.ok => dlast.err = InvalidNetwork

\* Descriptor::new made a descriptor of a tprv expression for Testnet, and
\* Wallet::new with that descriptor, the memory database and the network
\* Bitcoin failed with InvalidNetwork.
C22_Witness ==
    /\ Len(descriptors) >= 1
    /\ dfrom[1].op = "new" /\ dfrom[1].arg[2] = "Testnet"
    /\ dfrom[1].arg[1].version = "tprv"
    /\ dlast.op = "wallet_new" /\ dlast.arg = <<1, None, "Bitcoin", "Memory">>
    /\ ~dlast.ok /\ dlast.err = InvalidNetwork

====
